---- MODULE Spec2Model ----
(***************************************************************************)
(* Model of wireproxy-awg's configuration parser: ParseInterface and the   *)
(* helpers it calls, applied to an [Interface] section of an INI document. *)
(*                                                                         *)
(* A value of a key is a Text: a sequence of tokens.  Numeric values are   *)
(* spelled character by character (<<"2","0","0">>); list values are       *)
(* spelled with the tokens "," and " " between atoms that stand for an     *)
(* address literal, a prefix length, a key or an opaque word.  The INI     *)
(* tokenizer, strconv, netip and base64 are libraries: they are modelled   *)
(* by what they do on these tokens.                                        *)
(***************************************************************************)
EXTENDS Integers, Sequences, FiniteSets, TLC

VARIABLES cfg, env, device, err, pc, request, reparsed,
          routines, server, req, conn, peerConn, dials, spc, relay,
          args, mpc, flags, effects, exit, execs, ctx, tasks, prober, tun,
          clock, PingRecord, PingRecordLock, hpc, replies, resp

\* The state of a proxy server and of the connection it serves: the
\* routines Parse returned, the server SpawnRoutine built, the client's
\* request, the client connection, the connection dialed through the
\* tunnel, the addresses dialed, the position of serve, and the two relay
\* tasks.
proxyVars == <<routines, server, req, conn, peerConn, dials, spc, relay>>

\* The state of main: os.Args[1:], main's position, the parsed flags, what
\* the process has done so far, how it ended, the commands it started, the
\* context, the listener tasks, the prober, and the VirtualTun StartWireguard
\* returned.
mainVars == <<args, mpc, flags, effects, exit, execs, ctx, tasks, prober, tun>>

\* The state of the health endpoint: the clock, VirtualTun's PingRecord and
\* PingRecordLock, the position of ServeHTTP, the reply tasks of pingIPs and
\* the response written.
healthVars == <<clock, PingRecord, PingRecordLock, hpc, replies, resp>>

vars == <<cfg, env, device, err, pc, request, reparsed,
          routines, server, req, conn, peerConn, dials, spc, relay,
          args, mpc, flags, effects, exit, execs, ctx, tasks, prober, tun,
          clock, PingRecord, PingRecordLock, hpc, replies, resp>>

(***************************************************************************)
(* Go values.                                                              *)
(***************************************************************************)

\* The nil error.
NoError == "<nil>"

\* A nil pointer / a pointer to v.
NilPtr == <<>>
PtrTo(v) == <<v>>

\* No proxy server has been spawned and no connection accepted.
ProxyIdle ==
    /\ routines = <<>>
    /\ server = NilPtr
    /\ req = NilPtr
    /\ conn = NilPtr
    /\ peerConn = NilPtr
    /\ dials = <<>>
    /\ spc = "idle"
    /\ relay = <<>>

\* main has not started.
MainIdle ==
    /\ args = <<>>
    /\ mpc = "idle"
    /\ flags = NilPtr
    /\ effects = <<>>
    /\ exit = "running"
    /\ execs = <<>>
    /\ ctx = "live"
    /\ tasks = <<>>
    /\ prober = [pc |-> "off", late |-> FALSE]
    /\ tun = NilPtr

\* No health endpoint and no prober.
HealthIdle ==
    /\ clock = 0
    /\ PingRecord = <<>>
    /\ PingRecordLock = "free"
    /\ hpc = "idle"
    /\ replies = <<>>
    /\ resp = NilPtr

\* Unsigned magnitudes wider than TLC's integers are little-endian sequences
\* of 16-bit limbs without a most-significant zero limb (zero is <<>>).
LimbBase == 256 * 256

NatOf(n) ==
    IF n = 0 THEN <<>>
    ELSE IF n < LimbBase THEN <<n>>
    ELSE <<n % LimbBase, n \div LimbBase>>

RECURSIVE MulAdd(_, _, _)
\* limbs * m + c, for m <= 16 and c < LimbBase
MulAdd(limbs, m, c) ==
    IF limbs = <<>> THEN (IF c = 0 THEN <<>> ELSE <<c>>)
    ELSE LET t == limbs[1] * m + c
         IN  <<t % LimbBase>> \o MulAdd(Tail(limbs), m, t \div LimbBase)

\* MulAdd may leave zero limbs at the top only when the input was zero.
RECURSIVE Normalize(_)
Normalize(limbs) ==
    IF limbs = <<>> THEN <<>>
    ELSE IF limbs[Len(limbs)] = 0 THEN Normalize(SubSeq(limbs, 1, Len(limbs) - 1))
    ELSE limbs

RECURSIVE NatLess(_, _)
NatLess(a, b) ==
    IF Len(a) # Len(b) THEN Len(a) < Len(b)
    ELSE IF a = <<>> THEN FALSE
    ELSE IF a[Len(a)] # b[Len(b)] THEN a[Len(a)] < b[Len(b)]
    ELSE NatLess(SubSeq(a, 1, Len(a) - 1), SubSeq(b, 1, Len(b) - 1))

NatLeq(a, b) == a = b \/ NatLess(a, b)

\* 1<<64 - 1, 1<<63 and 1<<32 - 1 as limbs.
MaxUint64 == <<65535, 65535, 65535, 65535>>
Cutoff63 == <<0, 0, 0, 32768>>
MaxUint32 == <<65535, 65535>>

\* A Go int (64 bits): sign and magnitude; zero is never negative.
GoInt(neg, mag) == [neg |-> neg /\ mag # <<>>, mag |-> mag]
IntOf(n) == IF n < 0 THEN GoInt(TRUE, NatOf(0 - n)) ELSE GoInt(FALSE, NatOf(n))

IntLess(a, b) ==
    IF a.neg /\ ~b.neg THEN TRUE
    ELSE IF ~a.neg /\ b.neg THEN FALSE
    ELSE IF a.neg THEN NatLess(b.mag, a.mag)
    ELSE NatLess(a.mag, b.mag)

IntLeq(a, b) == a = b \/ IntLess(a, b)

\* The TLC integer of a Go int known to be small (one limb).
Small(a) ==
    IF a.mag = <<>> THEN 0
    ELSE IF a.neg THEN 0 - a.mag[1] ELSE a.mag[1]

(***************************************************************************)
(* strconv.ParseUint(s, 0, 64) and strconv.ParseInt(s, 0, 64), as go-ini's *)
(* Key.Uint64 and Key.Int call them.  Underscores are not in the alphabet. *)
(***************************************************************************)
ErrSyntax == "strconv: invalid syntax"
ErrRange == "strconv: value out of range"

DigitChars == <<"0", "1", "2", "3", "4", "5", "6", "7", "8", "9",
                "a", "b", "c", "d", "e", "f">>

\* The value of a digit character, 99 for a character that is no digit.
DigitVal(c) ==
    LET lc == CASE c = "A" -> "a" [] c = "B" -> "b" [] c = "C" -> "c"
                [] c = "D" -> "d" [] c = "E" -> "e" [] c = "F" -> "f"
                [] OTHER -> c
    IN  IF \E i \in 1..16 : DigitChars[i] = lc
        THEN (CHOOSE i \in 1..16 : DigitChars[i] = lc) - 1
        ELSE 99

RECURSIVE ParseDigits(_, _, _)
\* The digit loop of ParseUint: n is the value so far.
ParseDigits(s, base, n) ==
    IF s = <<>> THEN [err |-> NoError, val |-> n]
    ELSE LET d == DigitVal(s[1])
         IN  IF d >= base THEN [err |-> ErrSyntax, val |-> <<>>]
             ELSE LET n1 == Normalize(MulAdd(n, base, d))
                  IN  IF NatLess(MaxUint64, n1)
                      THEN [err |-> ErrRange, val |-> MaxUint64]
                      ELSE ParseDigits(Tail(s), base, n1)

ParseUint(s) ==
    IF s = <<>> THEN [err |-> ErrSyntax, val |-> <<>>]
    ELSE IF s[1] = "0"
         THEN IF Len(s) >= 3 /\ s[2] \in {"b", "B"}
              THEN ParseDigits(SubSeq(s, 3, Len(s)), 2, <<>>)
              ELSE IF Len(s) >= 3 /\ s[2] \in {"o", "O"}
              THEN ParseDigits(SubSeq(s, 3, Len(s)), 8, <<>>)
              ELSE IF Len(s) >= 3 /\ s[2] \in {"x", "X"}
              THEN ParseDigits(SubSeq(s, 3, Len(s)), 16, <<>>)
              ELSE ParseDigits(Tail(s), 8, <<>>)
         ELSE ParseDigits(s, 10, <<>>)

ParseInt(s) ==
    IF s = <<>> THEN [err |-> ErrSyntax, val |-> IntOf(0)]
    ELSE LET neg == s[1] = "-"
             body == IF s[1] \in {"+", "-"} THEN Tail(s) ELSE s
             un == ParseUint(body)
         IN  IF un.err = ErrSyntax THEN [err |-> ErrSyntax, val |-> IntOf(0)]
             ELSE IF un.err = ErrRange THEN [err |-> ErrRange, val |-> IntOf(0)]
             ELSE IF ~neg /\ NatLeq(Cutoff63, un.val)
                  THEN [err |-> ErrRange, val |-> IntOf(0)]
             ELSE IF neg /\ NatLess(Cutoff63, un.val)
                  THEN [err |-> ErrRange, val |-> IntOf(0)]
             ELSE [err |-> NoError, val |-> GoInt(neg, un.val)]

(***************************************************************************)
(* Strings as token sequences: the calls of package strings that the       *)
(* parser makes.                                                           *)
(***************************************************************************)
Comma == ","
Space == " "
Dollar == "$"
Slash == "/"

RECURSIVE Split(_)
\* strings.Split(s, ","): the pieces between commas; one empty piece for "".
Split(s) ==
    IF \A i \in 1..Len(s) : s[i] # Comma THEN <<s>>
    ELSE LET i == CHOOSE k \in 1..Len(s) :
                      s[k] = Comma /\ \A j \in 1..(k - 1) : s[j] # Comma
         IN  <<SubSeq(s, 1, i - 1)>> \o Split(SubSeq(s, i + 1, Len(s)))

RECURSIVE TrimLeft(_)
TrimLeft(s) == IF s # <<>> /\ s[1] = Space THEN TrimLeft(Tail(s)) ELSE s

RECURSIVE TrimRight(_)
TrimRight(s) ==
    IF s # <<>> /\ s[Len(s)] = Space THEN TrimRight(SubSeq(s, 1, Len(s) - 1)) ELSE s

\* strings.TrimSpace
TrimSpace(s) == TrimRight(TrimLeft(s))

\* strings.HasPrefix(s, "$") and strings.HasPrefix(s, "$$")
HasPrefix1(s) == Len(s) >= 1 /\ s[1] = Dollar
HasPrefix2(s) == Len(s) >= 2 /\ s[1] = Dollar /\ s[2] = Dollar

(***************************************************************************)
(* An ini.Section is a function from its (lower-cased) key names to their  *)
(* values.  GetKey fails on a missing key; Key creates a missing key with  *)
(* the empty value and returns it.                                         *)
(***************************************************************************)
HasKey(section, keyName) == keyName \in DOMAIN section

KeyString(section, keyName) ==
    IF HasKey(section, keyName) THEN section[keyName] ELSE <<>>

\* The section after section.Key(keyName).
KeyTouch(section, keyName) ==
    IF HasKey(section, keyName) THEN section
    ELSE section @@ (keyName :> <<>>)

ErrUnsetEnv == "references unset environment variable"

\* parseString: $NAME is looked up in the environment, a leading $$ stands
\* for $.  section.Key never returns nil, so a missing key reads as "".
parseString(section, environ, keyName) ==
    LET value == KeyString(section, keyName)
    IN  IF HasPrefix1(value)
        THEN IF HasPrefix2(value)
             THEN [err |-> NoError, val |-> Tail(value)]
             ELSE IF Tail(value) \in DOMAIN environ
                  THEN [err |-> NoError, val |-> environ[Tail(value)]]
                  ELSE [err |-> ErrUnsetEnv, val |-> <<>>]
        ELSE [err |-> NoError, val |-> value]

(***************************************************************************)
(* net/netip.  An address literal is one token; AddrOf gives the address   *)
(* it denotes (two spellings of one address denote the same value).        *)
(***************************************************************************)
Addr4 == "10.5.0.2"
Addr4b == "100.96.0.190"
Addr6 == "2606:B300:FFFF:fe8a:2ac6:c7e8:b021:6f5f"
Addr6lower == "2606:b300:ffff:fe8a:2ac6:c7e8:b021:6f5f"
AddrDNS == "1.1.1.1"
AddrLiterals == {Addr4, Addr4b, Addr6, Addr6lower, AddrDNS}

AddrOf(lit) ==
    CASE lit = Addr4 -> [is4 |-> TRUE, ip |-> "10.5.0.2"]
      [] lit = Addr4b -> [is4 |-> TRUE, ip |-> "100.96.0.190"]
      [] lit = Addr6 -> [is4 |-> FALSE, ip |-> "2606:b300:ffff:fe8a:2ac6:c7e8:b021:6f5f"]
      [] lit = Addr6lower -> [is4 |-> FALSE, ip |-> "2606:b300:ffff:fe8a:2ac6:c7e8:b021:6f5f"]
      [] lit = AddrDNS -> [is4 |-> TRUE, ip |-> "1.1.1.1"]

ErrParseAddr == "netip: unable to parse IP"
ErrParsePrefix == "netip: ParsePrefix failed"

\* netip.ParseAddr
ParseAddr(str) ==
    IF Len(str) = 1 /\ str[1] \in AddrLiterals
    THEN [err |-> NoError, val |-> AddrOf(str[1])]
    ELSE [err |-> ErrParseAddr, val |-> <<>>]

\* Prefix lengths are spelled as one token.
BitsLiterals == {"0", "23", "32", "33", "128", "129"}
BitsOf(lit) ==
    CASE lit = "0" -> 0 [] lit = "23" -> 23 [] lit = "32" -> 32
      [] lit = "33" -> 33 [] lit = "128" -> 128 [] lit = "129" -> 129

\* netip.ParsePrefix: an address, the last "/", and a length within the
\* address family's width.
ParsePrefix(str) ==
    IF \A i \in 1..Len(str) : str[i] # Slash
    THEN [err |-> ErrParsePrefix, val |-> <<>>]
    ELSE LET i == CHOOSE k \in 1..Len(str) :
                      str[k] = Slash /\ \A j \in (k + 1)..Len(str) : str[j] # Slash
             ip == ParseAddr(SubSeq(str, 1, i - 1))
             bitsStr == SubSeq(str, i + 1, Len(str))
         IN  IF ip.err # NoError THEN [err |-> ErrParsePrefix, val |-> <<>>]
             ELSE IF ~(Len(bitsStr) = 1 /\ bitsStr[1] \in BitsLiterals)
                  THEN [err |-> ErrParsePrefix, val |-> <<>>]
             ELSE IF BitsOf(bitsStr[1]) > (IF ip.val.is4 THEN 32 ELSE 128)
                  THEN [err |-> ErrParsePrefix, val |-> <<>>]
             ELSE [err |-> NoError,
                   val |-> [addr |-> ip.val, bits |-> BitsOf(bitsStr[1])]]

\* Prefix.Addr
PrefixAddr(prefix) == prefix.addr

RECURSIVE parseNetIPLoop(_, _)
\* The loop of parseNetIP over the split pieces; ips is the list so far.
parseNetIPLoop(keys, ips) ==
    IF keys = <<>> THEN [err |-> NoError, val |-> ips]
    ELSE LET str == TrimSpace(keys[1])
         IN  IF Len(str) = 0 THEN parseNetIPLoop(Tail(keys), ips)
             ELSE LET ip == ParseAddr(str)
                  IN  IF ip.err # NoError THEN [err |-> ip.err, val |-> <<>>]
                      ELSE parseNetIPLoop(Tail(keys), Append(ips, ip.val))

parseNetIP(section, environ, keyName) ==
    LET key == parseString(section, environ, keyName)
    IN  IF key.err # NoError THEN [err |-> key.err, val |-> <<>>]
        ELSE parseNetIPLoop(Split(key.val), <<>>)


RECURSIVE parseCIDRNetIPLoopPrepending(_, _)
\* The loop of parseCIDRNetIP putting each address before those it has.
parseCIDRNetIPLoopPrepending(keys, ips) ==
    IF keys = <<>> THEN [err |-> NoError, val |-> ips]
    ELSE LET str == TrimSpace(keys[1])
         IN  IF Len(str) = 0 THEN parseCIDRNetIPLoopPrepending(Tail(keys), ips)
             ELSE LET addr == ParseAddr(str)
                      prefix == ParsePrefix(str)
                  IN  IF addr.err = NoError
                      THEN parseCIDRNetIPLoopPrepending(Tail(keys), <<addr.val>> \o ips)
                      ELSE IF prefix.err # NoError
                           THEN [err |-> prefix.err, val |-> <<>>]
                           ELSE parseCIDRNetIPLoopPrepending(Tail(keys),
                                    <<PrefixAddr(prefix.val)>> \o ips)

RECURSIVE parseCIDRNetIPLoop(_, _)
\* The loop of parseCIDRNetIP: an address, else a prefix's address.
parseCIDRNetIPLoop(keys, ips) ==
    IF keys = <<>> THEN [err |-> NoError, val |-> ips]
    ELSE LET str == TrimSpace(keys[1])
         IN  IF Len(str) = 0 THEN parseCIDRNetIPLoop(Tail(keys), ips)
             ELSE LET addr == ParseAddr(str)
                      prefix == ParsePrefix(str)
                  IN  IF addr.err = NoError
                      THEN parseCIDRNetIPLoop(Tail(keys), Append(ips, addr.val))
                      ELSE IF prefix.err # NoError
                           THEN [err |-> prefix.err, val |-> <<>>]
                           ELSE parseCIDRNetIPLoop(Tail(keys),
                                    Append(ips, PrefixAddr(prefix.val)))

parseCIDRNetIP(section, environ, keyName) ==
    LET key == parseString(section, environ, keyName)
    IN  IF key.err # NoError THEN [err |-> key.err, val |-> <<>>]
        ELSE parseCIDRNetIPLoop(Split(key.val), <<>>)

\* parseStrings keeps every piece, trimmed, the empty ones too.
parseStrings(section, environ, keyName) ==
    LET key == parseString(section, environ, keyName)
        keys == Split(key.val)
    IN  IF key.err # NoError THEN [err |-> key.err, val |-> <<>>]
        ELSE [err |-> NoError,
              val |-> [i \in 1..Len(keys) |-> TrimSpace(keys[i])]]

(***************************************************************************)
(* encoding/base64 and encoding/hex.  A Base64 text is one token; the      *)
(* table gives the bytes it decodes to, written in hex.                    *)
(***************************************************************************)
KeyB64 == "LAr1aNSNF9d0MjwUgAVC4020T0N/E5NUtqVv5EnsSz0="
KeyB64b == "mBsVDahr1XIu9PPd17UmsDdB6E53nvmS47NbNqQCiFM="
ShortB64 == "c2hvcnQ="

ErrInvalidBase64 == "invalid base64 string"
ErrKeyLength == "key should be 32 bytes"

\* base64.StdEncoding.DecodeString: the decoded length and the hex of the
\* bytes; the empty text decodes to no bytes.
DecodeString(key) ==
    IF key = <<>> THEN [err |-> NoError, len |-> 0, hex |-> ""]
    ELSE IF key = <<KeyB64>>
    THEN [err |-> NoError, len |-> 32,
          hex |-> "2c0af568d48d17d774323c14800542e34db44f437f139354b6a56fe449ec4b3d"]
    ELSE IF key = <<KeyB64b>>
    THEN [err |-> NoError, len |-> 32,
          hex |-> "981b150da86bd5722ef4f3ddd7b526b03741e84e779ef992e3b35b36a4028853"]
    ELSE IF key = <<ShortB64>>
    THEN [err |-> NoError, len |-> 5, hex |-> "73686f7274"]
    ELSE [err |-> "illegal base64 data", len |-> 0, hex |-> ""]

encodeBase64ToHex(key) ==
    LET decoded == DecodeString(key)
    IN  IF decoded.err # NoError THEN [err |-> ErrInvalidBase64, val |-> ""]
        ELSE IF decoded.len # 32 THEN [err |-> ErrKeyLength, val |-> ""]
        ELSE [err |-> NoError, val |-> decoded.hex]

parseBase64KeyToHex(section, environ, keyName) ==
    LET key == parseString(section, environ, keyName)
    IN  IF key.err # NoError THEN [err |-> key.err, val |-> ""]
        ELSE encodeBase64ToHex(key.val)

\* go-ini's Key.Bool (parseBool): the spellings of true and of false.
ParseBool(s) ==
    IF Len(s) = 1 /\ s[1] \in {"1", "t", "T", "TRUE", "true", "True",
                               "YES", "yes", "Yes", "y", "ON", "on", "On"}
    THEN [err |-> NoError, val |-> TRUE]
    ELSE IF Len(s) = 1 /\ s[1] \in {"0", "f", "F", "FALSE", "false", "False",
                                    "NO", "no", "No", "n", "OFF", "off", "Off"}
    THEN [err |-> NoError, val |-> FALSE]
    ELSE [err |-> "parsing: invalid syntax", val |-> FALSE]

(***************************************************************************)
(* The configuration types.                                                *)
(***************************************************************************)

\* ASecConfigType{}: the zero value.  Jc, Jmin, Jmax, S1 and S2 are range
\* checked before they are stored and are kept as plain integers; the
\* uint32 headers are kept as limbs.
ZeroASecConfig ==
    [junkPacketCount |-> 0, junkPacketMinSize |-> 0, junkPacketMaxSize |-> 0,
     initPacketJunkSize |-> 0, responsePacketJunkSize |-> 0,
     initPacketMagicHeader |-> <<>>, responsePacketMagicHeader |-> <<>>,
     underloadPacketMagicHeader |-> <<>>, transportPacketMagicHeader |-> <<>>,
     i1 |-> NilPtr, i2 |-> NilPtr, i3 |-> NilPtr, i4 |-> NilPtr, i5 |-> NilPtr,
     j1 |-> NilPtr, j2 |-> NilPtr, j3 |-> NilPtr, itime |-> NilPtr]

MTUDefault == 1420
CheckAliveIntervalDefault == 5

\* &DeviceConfig{MTU: 1420}, the device Parse hands to ParseInterface.
NewDeviceConfig ==
    [SecretKey |-> "", Endpoint |-> <<>>, Peers |-> <<>>, DNS |-> <<>>,
     MTU |-> IntOf(MTUDefault), ListenPort |-> NilPtr, CheckAlive |-> <<>>,
     DomainBlockingEnabled |-> FALSE, BlockedDomains |-> <<>>,
     CheckAliveInterval |-> IntOf(0), ASecConfig |-> NilPtr]

(***************************************************************************)
(* ParseASecConfig.  acc is the function's state between two of its        *)
(* blocks: the aSecConfig pointer, and the error it has returned with.     *)
(***************************************************************************)
JcMax == 200
JunkSizeMax == 1280

ErrJcRange == "value of the Jc field must be within the range of 0 to 200"
ErrJminRange == "value of the Jmin field must be within the range of 0 to 1280"
ErrJmaxRange == "value of the Jmax field must be within the range of 0 to 1280"
ErrS1Range == "value of the S1 field must be within the range of 0 to 1280"
ErrS2Range == "value of the S2 field must be within the range of 0 to 1280"
ErrH1Range == "value of the H1 field must be within the range of 1 to 4294967295"
ErrH2Range == "value of the H2 field must be within the range of 1 to 4294967295"
ErrH3Range == "value of the H3 field must be within the range of 1 to 4294967295"
ErrH4Range == "value of the H4 field must be within the range of 1 to 4294967295"
ErrITimeRange == "value of the ITime field must be non-negative"


\* initializeASecConfig that makes a fresh ASecConfigType at every call.
initializeASecConfigAfresh(aSecConfig) ==
    PtrTo(ZeroASecConfig)

\* initializeASecConfig
initializeASecConfig(aSecConfig) ==
    IF aSecConfig = NilPtr THEN PtrTo(ZeroASecConfig) ELSE aSecConfig

\* ASecIntBlock that checks only the lower end of the range.
ASecIntBlockNoUpperBound(section, acc, keyName, max, errRange, field) ==
    IF acc.err # NoError \/ ~HasKey(section, keyName) THEN acc
    ELSE LET value == ParseInt(section[keyName])
         IN  IF value.err # NoError THEN [err |-> value.err, conf |-> NilPtr]
             ELSE IF IntLess(value.val, IntOf(0))
                  THEN [err |-> errRange, conf |-> NilPtr]
             ELSE [err |-> NoError,
                   conf |-> PtrTo([initializeASecConfig(acc.conf)[1]
                                     EXCEPT ![field] = Small(value.val)])]

\* ASecIntBlock with the range 1 to 128 that the tests still expect for Jc.
ASecIntBlockRange1To128(section, acc, keyName, max, errRange, field) ==
    IF acc.err # NoError \/ ~HasKey(section, keyName) THEN acc
    ELSE LET value == ParseInt(section[keyName])
         IN  IF value.err # NoError THEN [err |-> value.err, conf |-> NilPtr]
             ELSE IF IntLess(value.val, IntOf(1)) \/ IntLess(IntOf(128), value.val)
                  THEN [err |-> errRange, conf |-> NilPtr]
             ELSE [err |-> NoError,
                   conf |-> PtrTo([initializeASecConfig(acc.conf)[1]
                                     EXCEPT ![field] = Small(value.val)])]

\* One block for Jc, Jmin, Jmax, S1 or S2: Key.Int, the range check, the
\* lazy creation and the store.
ASecIntBlock(section, acc, keyName, max, errRange, field) ==
    IF acc.err # NoError \/ ~HasKey(section, keyName) THEN acc
    ELSE LET value == ParseInt(section[keyName])
         IN  IF value.err # NoError THEN [err |-> value.err, conf |-> NilPtr]
             ELSE IF IntLess(value.val, IntOf(0)) \/ IntLess(IntOf(max), value.val)
                  THEN [err |-> errRange, conf |-> NilPtr]
             ELSE [err |-> NoError,
                   conf |-> PtrTo([initializeASecConfig(acc.conf)[1]
                                     EXCEPT ![field] = Small(value.val)])]

\* One block for H1..H4: Key.Uint64, the range check, the store as uint32.
ASecHeaderBlock(section, acc, keyName, errRange, field) ==
    IF acc.err # NoError \/ ~HasKey(section, keyName) THEN acc
    ELSE LET value64 == ParseUint(section[keyName])
         IN  IF value64.err # NoError THEN [err |-> value64.err, conf |-> NilPtr]
             ELSE IF NatLess(value64.val, NatOf(1)) \/ NatLess(MaxUint32, value64.val)
                  THEN [err |-> errRange, conf |-> NilPtr]
             ELSE [err |-> NoError,
                   conf |-> PtrTo([initializeASecConfig(acc.conf)[1]
                                     EXCEPT ![field] = value64.val])]

\* One block for I1..I5, J1..J3: the value is stored as it is.
ASecStringBlock(section, acc, keyName, field) ==
    IF acc.err # NoError \/ ~HasKey(section, keyName) THEN acc
    ELSE [err |-> NoError,
          conf |-> PtrTo([initializeASecConfig(acc.conf)[1]
                            EXCEPT ![field] = PtrTo(section[keyName])])]

\* The ITime block.
ASecITimeBlock(section, acc) ==
    IF acc.err # NoError \/ ~HasKey(section, "itime") THEN acc
    ELSE LET value == ParseInt(section["itime"])
         IN  IF value.err # NoError THEN [err |-> value.err, conf |-> NilPtr]
             ELSE IF IntLess(value.val, IntOf(0))
                  THEN [err |-> ErrITimeRange, conf |-> NilPtr]
             ELSE [err |-> NoError,
                   conf |-> PtrTo([initializeASecConfig(acc.conf)[1]
                                     EXCEPT !.itime = PtrTo(value.val)])]

messageInitiationSize == 148
messageResponseSize == 92

ErrJminJmax == "value of the Jmin field must be less than or equal to Jmax field value"
ErrS1S2 == "value of the field S1 + message initiation size (148) must not equal S2 + message response size (92)"

\* fmt.Errorf("values of the H1-H4 fields must be unique; H%d conflicts", i+1)
ErrHConflict(n) ==
    CASE n = 1 -> "values of the H1-H4 fields must be unique; H1 conflicts"
      [] n = 2 -> "values of the H1-H4 fields must be unique; H2 conflicts"
      [] n = 3 -> "values of the H1-H4 fields must be unique; H3 conflicts"
      [] n = 4 -> "values of the H1-H4 fields must be unique; H4 conflicts"

\* fmt.Errorf("H%d is unset (0) while other headers are set; ...", i+1)
ErrHUnset(n) ==
    CASE n = 1 -> "H1 is unset (0) while other headers are set; all H1-H4 must be explicitly set if any are used"
      [] n = 2 -> "H2 is unset (0) while other headers are set; all H1-H4 must be explicitly set if any are used"
      [] n = 3 -> "H3 is unset (0) while other headers are set; all H1-H4 must be explicitly set if any are used"
      [] n = 4 -> "H4 is unset (0) while other headers are set; all H1-H4 must be explicitly set if any are used"

\* The headers slice of ValidateASecConfig.
Headers(config) ==
    <<config.initPacketMagicHeader, config.responsePacketMagicHeader,
      config.underloadPacketMagicHeader, config.transportPacketMagicHeader>>

RECURSIVE UniqueLoop(_, _, _)
\* The first loop over headers, from index n with the map seen: the error
\* of the first non-zero header seen before.
UniqueLoop(headers, n, seen) ==
    IF n > Len(headers) THEN NoError
    ELSE IF headers[n] # <<>>
         THEN IF headers[n] \in seen THEN ErrHConflict(n)
              ELSE UniqueLoop(headers, n + 1, seen \cup {headers[n]})
         ELSE UniqueLoop(headers, n + 1, seen)


\* UnsetLoop that reports an unset header only when H1 is the one set.
UnsetLoopFromFirst(headers) ==
    IF headers[1] # <<>> /\ \E n \in 1..Len(headers) : headers[n] = <<>>
    THEN ErrHUnset(CHOOSE n \in 1..Len(headers) :
             headers[n] = <<>> /\ \A m \in 1..(n - 1) : headers[m] # <<>>)
    ELSE NoError

\* The second loop: with any header set, the first unset one is an error.
UnsetLoop(headers) ==
    LET anyHeaderSet == \E n \in 1..Len(headers) : headers[n] # <<>>
    IN  IF anyHeaderSet /\ \E n \in 1..Len(headers) : headers[n] = <<>>
        THEN ErrHUnset(CHOOSE n \in 1..Len(headers) :
                 headers[n] = <<>> /\ \A m \in 1..(n - 1) : headers[m] # <<>>)
        ELSE NoError


\* ValidateASecConfig comparing Jmin with Jmax whatever the junk packet count.
ValidateASecConfigAnyCount(conf) ==
    IF conf = NilPtr THEN NoError
    ELSE LET config == conf[1]
         IN  IF config.junkPacketMinSize > config.junkPacketMaxSize
             THEN ErrJminJmax
             ELSE IF messageInitiationSize + config.initPacketJunkSize
                     = messageResponseSize + config.responsePacketJunkSize
             THEN ErrS1S2
             ELSE IF UniqueLoop(Headers(config), 1, {}) # NoError
             THEN UniqueLoop(Headers(config), 1, {})
             ELSE UnsetLoop(Headers(config))

\* ValidateASecConfig comparing the junk sizes themselves, without the
\* message sizes added.
ValidateASecConfigBareSizes(conf) ==
    IF conf = NilPtr THEN NoError
    ELSE LET config == conf[1]
         IN  IF config.junkPacketCount > 0
                /\ config.junkPacketMinSize > config.junkPacketMaxSize
             THEN ErrJminJmax
             ELSE IF config.initPacketJunkSize = config.responsePacketJunkSize
             THEN ErrS1S2
             ELSE IF UniqueLoop(Headers(config), 1, {}) # NoError
             THEN UniqueLoop(Headers(config), 1, {})
             ELSE UnsetLoop(Headers(config))

ValidateASecConfig(conf) ==
    IF conf = NilPtr THEN NoError
    ELSE LET config == conf[1]
         IN  IF config.junkPacketCount > 0
                /\ config.junkPacketMinSize > config.junkPacketMaxSize
             THEN ErrJminJmax
             ELSE IF messageInitiationSize + config.initPacketJunkSize
                     = messageResponseSize + config.responsePacketJunkSize
             THEN ErrS1S2
             ELSE IF UniqueLoop(Headers(config), 1, {}) # NoError
             THEN UniqueLoop(Headers(config), 1, {})
             ELSE UnsetLoop(Headers(config))

\* The blocks of ParseASecConfig in the order of the source.
ASecBlocks ==
    <<[kind |-> "int", key |-> "jc", max |-> JcMax, errRange |-> ErrJcRange,
       field |-> "junkPacketCount"],
      [kind |-> "int", key |-> "jmin", max |-> JunkSizeMax, errRange |-> ErrJminRange,
       field |-> "junkPacketMinSize"],
      [kind |-> "int", key |-> "jmax", max |-> JunkSizeMax, errRange |-> ErrJmaxRange,
       field |-> "junkPacketMaxSize"],
      [kind |-> "int", key |-> "s1", max |-> JunkSizeMax, errRange |-> ErrS1Range,
       field |-> "initPacketJunkSize"],
      [kind |-> "int", key |-> "s2", max |-> JunkSizeMax, errRange |-> ErrS2Range,
       field |-> "responsePacketJunkSize"],
      [kind |-> "header", key |-> "h1", max |-> 0, errRange |-> ErrH1Range,
       field |-> "initPacketMagicHeader"],
      [kind |-> "header", key |-> "h2", max |-> 0, errRange |-> ErrH2Range,
       field |-> "responsePacketMagicHeader"],
      [kind |-> "header", key |-> "h3", max |-> 0, errRange |-> ErrH3Range,
       field |-> "underloadPacketMagicHeader"],
      [kind |-> "header", key |-> "h4", max |-> 0, errRange |-> ErrH4Range,
       field |-> "transportPacketMagicHeader"],
      [kind |-> "string", key |-> "i1", max |-> 0, errRange |-> "", field |-> "i1"],
      [kind |-> "string", key |-> "i2", max |-> 0, errRange |-> "", field |-> "i2"],
      [kind |-> "string", key |-> "i3", max |-> 0, errRange |-> "", field |-> "i3"],
      [kind |-> "string", key |-> "i4", max |-> 0, errRange |-> "", field |-> "i4"],
      [kind |-> "string", key |-> "i5", max |-> 0, errRange |-> "", field |-> "i5"],
      [kind |-> "string", key |-> "j1", max |-> 0, errRange |-> "", field |-> "j1"],
      [kind |-> "string", key |-> "j2", max |-> 0, errRange |-> "", field |-> "j2"],
      [kind |-> "string", key |-> "j3", max |-> 0, errRange |-> "", field |-> "j3"],
      [kind |-> "itime", key |-> "itime", max |-> 0, errRange |-> ErrITimeRange,
       field |-> "itime"]>>

\* The block b of ParseASecConfig, run in state acc.
ASecBlock(section, acc, b) ==
    CASE b.kind = "int" ->
           ASecIntBlock(section, acc, b.key, b.max, b.errRange, b.field)
      [] b.kind = "header" ->
           ASecHeaderBlock(section, acc, b.key, b.errRange, b.field)
      [] b.kind = "string" -> ASecStringBlock(section, acc, b.key, b.field)
      [] b.kind = "itime" -> ASecITimeBlock(section, acc)

\* F applied to the value of x (x is evaluated once).
Once(x, F(_)) == CHOOSE v \in {F(y) : y \in {x}} : TRUE

RECURSIVE ASecBlocksFrom(_, _, _)
\* The blocks from the n-th on, run in state acc.
ASecBlocksFrom(section, acc, n) ==
    IF n > Len(ASecBlocks) THEN acc
    ELSE Once(ASecBlock(section, acc, ASecBlocks[n]),
              LAMBDA next : ASecBlocksFrom(section, next, n + 1))

\* ParseASecConfig up to the call of ValidateASecConfig.
ParseASecFields(section) ==
    ASecBlocksFrom(section, [err |-> NoError, conf |-> NilPtr], 1)

ASecValidated(parsed) ==
    IF parsed.err # NoError THEN parsed
    ELSE Once(ValidateASecConfig(parsed.conf),
              LAMBDA e : IF e # NoError THEN [err |-> e, conf |-> NilPtr]
                         ELSE parsed)

ParseASecConfig(section) ==
    Once(ParseASecFields(section), LAMBDA parsed : ASecValidated(parsed))

(***************************************************************************)
(* ParseInterface.                                                         *)
(***************************************************************************)
ErrOneInterface == "one and only one [Interface] is expected"
ErrCheckAliveInterval == "CheckAliveInterval is only valid when CheckAlive is set"

\* cfg.SectionsByName
SectionsByName(file, name) == IF name \in DOMAIN file THEN file[name] ELSE <<>>

\* ParseInterface is a sequence of steps over st: the error it has returned
\* with (a step after a return does nothing), the device, and the section,
\* in which section.Key creates the keys parseString asks for.
Returned(st, e) == [st EXCEPT !.err = e]

StepAddress(environ, st) ==
    Once(parseCIDRNetIP(st.section, environ, "address"),
         LAMBDA address :
             IF address.err # NoError
             THEN [Returned(st, address.err) EXCEPT
                      !.section = KeyTouch(st.section, "address")]
             ELSE [st EXCEPT !.section = KeyTouch(st.section, "address"),
                             !.device.Endpoint = address.val])

StepPrivateKey(environ, st) ==
    Once(parseBase64KeyToHex(st.section, environ, "privatekey"),
         LAMBDA privKey :
             IF privKey.err # NoError
             THEN [Returned(st, privKey.err) EXCEPT
                      !.section = KeyTouch(st.section, "privatekey")]
             ELSE [st EXCEPT !.section = KeyTouch(st.section, "privatekey"),
                             !.device.SecretKey = privKey.val])

StepDNS(environ, st) ==
    Once(parseNetIP(st.section, environ, "dns"),
         LAMBDA dns :
             IF dns.err # NoError
             THEN [Returned(st, dns.err) EXCEPT
                      !.section = KeyTouch(st.section, "dns")]
             ELSE [st EXCEPT !.section = KeyTouch(st.section, "dns"),
                             !.device.DNS = dns.val])

StepMTU(st) ==
    IF ~HasKey(st.section, "mtu") THEN st
    ELSE Once(ParseInt(st.section["mtu"]),
              LAMBDA value :
                  IF value.err # NoError THEN Returned(st, value.err)
                  ELSE [st EXCEPT !.device.MTU = value.val])

StepListenPort(st) ==
    IF ~HasKey(st.section, "listenport") THEN st
    ELSE Once(ParseInt(st.section["listenport"]),
              LAMBDA value :
                  IF value.err # NoError THEN Returned(st, value.err)
                  ELSE [st EXCEPT !.device.ListenPort = PtrTo(value.val)])

StepCheckAlive(environ, st) ==
    Once(parseNetIP(st.section, environ, "checkalive"),
         LAMBDA checkAlive :
             IF checkAlive.err # NoError
             THEN [Returned(st, checkAlive.err) EXCEPT
                      !.section = KeyTouch(st.section, "checkalive")]
             ELSE [st EXCEPT !.section = KeyTouch(st.section, "checkalive"),
                             !.device.CheckAlive = checkAlive.val])

StepDomainBlockingEnabled(st) ==
    IF ~HasKey(st.section, "domainblockingenabled") THEN st
    ELSE Once(ParseBool(st.section["domainblockingenabled"]),
              LAMBDA value :
                  IF value.err # NoError THEN Returned(st, value.err)
                  ELSE [st EXCEPT !.device.DomainBlockingEnabled = value.val])

StepBlockedDomains(environ, st) ==
    Once(parseStrings(st.section, environ, "blockeddomains"),
         LAMBDA blockedDomains :
             IF blockedDomains.err # NoError
             THEN [Returned(st, blockedDomains.err) EXCEPT
                      !.section = KeyTouch(st.section, "blockeddomains")]
             ELSE [st EXCEPT !.section = KeyTouch(st.section, "blockeddomains"),
                             !.device.BlockedDomains = blockedDomains.val])


\* The CheckAliveInterval step taking the interval whatever CheckAlive holds.
StepCheckAliveIntervalUnconditional(st) ==
    Once([st EXCEPT !.device.CheckAliveInterval = IntOf(CheckAliveIntervalDefault)],
         LAMBDA st5 :
             IF ~HasKey(st.section, "checkaliveinterval") THEN st5
             ELSE Once(ParseInt(st.section["checkaliveinterval"]),
                       LAMBDA value :
                           IF value.err # NoError THEN Returned(st5, value.err)
                           ELSE [st5 EXCEPT !.device.CheckAliveInterval = value.val]))

\* checkAlive is the list the CheckAlive step has stored in the device.
StepCheckAliveInterval(st) ==
    Once([st EXCEPT !.device.CheckAliveInterval = IntOf(CheckAliveIntervalDefault)],
         LAMBDA st5 :
             IF ~HasKey(st.section, "checkaliveinterval") THEN st5
             ELSE Once(ParseInt(st.section["checkaliveinterval"]),
                       LAMBDA value :
                           IF value.err # NoError THEN Returned(st5, value.err)
                           ELSE IF Len(st.device.CheckAlive) = 0
                                THEN Returned(st5, ErrCheckAliveInterval)
                           ELSE [st5 EXCEPT !.device.CheckAliveInterval = value.val]))

StepASecConfig(st) ==
    Once(ParseASecConfig(st.section),
         LAMBDA aSecConfig :
             IF aSecConfig.err # NoError THEN Returned(st, aSecConfig.err)
             ELSE [st EXCEPT !.device.ASecConfig = aSecConfig.conf])

\* The steps of ParseInterface after the lookup of the section, in order.
InterfaceSteps ==
    <<"Address", "PrivateKey", "DNS", "MTU", "ListenPort", "CheckAlive",
      "DomainBlockingEnabled", "BlockedDomains", "CheckAliveInterval",
      "ASecConfig">>

InterfaceStep(environ, st, step) ==
    IF st.err # NoError THEN st
    ELSE CASE step = "Address" -> StepAddress(environ, st)
           [] step = "PrivateKey" -> StepPrivateKey(environ, st)
           [] step = "DNS" -> StepDNS(environ, st)
           [] step = "MTU" -> StepMTU(st)
           [] step = "ListenPort" -> StepListenPort(st)
           [] step = "CheckAlive" -> StepCheckAlive(environ, st)
           [] step = "DomainBlockingEnabled" -> StepDomainBlockingEnabled(st)
           [] step = "BlockedDomains" -> StepBlockedDomains(environ, st)
           [] step = "CheckAliveInterval" -> StepCheckAliveInterval(st)
           [] step = "ASecConfig" -> StepASecConfig(st)

RECURSIVE InterfaceStepsFrom(_, _, _, _)
\* The steps from the n-th to the last-th, run in state st.
InterfaceStepsFrom(environ, st, n, last) ==
    IF n > last THEN st
    ELSE Once(InterfaceStep(environ, st, InterfaceSteps[n]),
              LAMBDA next : InterfaceStepsFrom(environ, next, n + 1, last))

\* ParseInterface(cfg, device): the error, the device and the file as the
\* call leaves them.
ParseInterfaceResult(file, environ, dev) ==
    LET sections == SectionsByName(file, "interface")
    IN  IF Len(sections) # 1
        THEN [err |-> ErrOneInterface, device |-> dev, file |-> file]
        ELSE Once(InterfaceStepsFrom(environ,
                      [err |-> NoError, device |-> dev, section |-> sections[1]],
                      1, Len(InterfaceSteps)),
                  LAMBDA st :
                      [err |-> st.err, device |-> st.device,
                       file |-> [file EXCEPT !["interface"] = <<st.section>>]])

(***************************************************************************)
(* ParsePeers.  An endpoint is written host, ":", port, an IPv6 host in    *)
(* "[" "]"; the hosts of the model are address literals, which             *)
(* net.ResolveIPAddr resolves to themselves.                               *)
(***************************************************************************)
Colon == ":"
PresharedKeyDefault == "0000000000000000000000000000000000000000000000000000000000000000"
ErrOnePeer == "at least one [Peer] is expected"
ErrSplitHostPort == "missing port in address"

\* strings.ToLower on an endpoint: the upper-case spelling of the IPv6
\* literal becomes the lower-case one.
ToLower(s) == [i \in 1..Len(s) |-> IF s[i] = Addr6 THEN Addr6lower ELSE s[i]]

\* resolveIPPAndPort: net.SplitHostPort, resolveIP of the host, and
\* net.JoinHostPort of the resolved address and the port.
resolveIPPAndPort(addr) ==
    LET bare == Len(addr) = 3 /\ addr[2] = Colon /\ addr[1] \in AddrLiterals
                   /\ AddrOf(addr[1]).is4
        bracketed == Len(addr) = 5 /\ addr[1] = "[" /\ addr[3] = "]"
                        /\ addr[4] = Colon /\ addr[2] \in AddrLiterals
    IN  IF bare
        THEN [err |-> NoError, val |-> <<AddrOf(addr[1]).ip, Colon, addr[3]>>]
        ELSE IF bracketed
        THEN [err |-> NoError,
              val |-> IF AddrOf(addr[2]).is4
                      THEN <<AddrOf(addr[2]).ip, Colon, addr[5]>>
                      ELSE <<"[", AddrOf(addr[2]).ip, "]", Colon, addr[5]>>]
        ELSE [err |-> ErrSplitHostPort, val |-> <<>>]

RECURSIVE parseAllowedIPsLoop(_, _)
\* The loop of parseAllowedIPs: every non-empty piece is a prefix.
parseAllowedIPsLoop(keys, ips) ==
    IF keys = <<>> THEN [err |-> NoError, val |-> ips]
    ELSE LET str == TrimSpace(keys[1])
         IN  IF Len(str) = 0 THEN parseAllowedIPsLoop(Tail(keys), ips)
             ELSE LET prefix == ParsePrefix(str)
                  IN  IF prefix.err # NoError
                      THEN [err |-> prefix.err, val |-> <<>>]
                      ELSE parseAllowedIPsLoop(Tail(keys), Append(ips, prefix.val))

parseAllowedIPs(section, environ) ==
    LET key == parseString(section, environ, "allowedips")
    IN  IF key.err # NoError THEN [err |-> key.err, val |-> <<>>]
        ELSE parseAllowedIPsLoop(Split(key.val), <<>>)

\* One pass of the loop of ParsePeers: the error it returns with, the peer
\* it appends otherwise, and the section as its lookups leave it.
ParsePeer(section, environ) ==
    LET decoded == parseBase64KeyToHex(section, environ, "publickey")
        s1 == KeyTouch(section, "publickey")
        psk == IF HasKey(section, "presharedkey")
               THEN encodeBase64ToHex(section["presharedkey"])
               ELSE [err |-> NoError, val |-> PresharedKeyDefault]
        endpoint == IF HasKey(section, "endpoint")
                    THEN resolveIPPAndPort(ToLower(section["endpoint"]))
                    ELSE [err |-> NoError, val |-> <<>>]
        keepAlive == IF HasKey(section, "persistentkeepalive")
                     THEN ParseInt(section["persistentkeepalive"])
                     ELSE [err |-> NoError, val |-> IntOf(0)]
        allowed == parseAllowedIPs(section, environ)
        s2 == KeyTouch(s1, "allowedips")
    IN  IF decoded.err # NoError
        THEN [err |-> decoded.err, peer |-> <<>>, section |-> s1]
        ELSE IF psk.err # NoError
        THEN [err |-> psk.err, peer |-> <<>>, section |-> s1]
        ELSE IF endpoint.err # NoError
        THEN [err |-> endpoint.err, peer |-> <<>>, section |-> s1]
        ELSE IF keepAlive.err # NoError
        THEN [err |-> keepAlive.err, peer |-> <<>>, section |-> s1]
        ELSE IF allowed.err # NoError
        THEN [err |-> allowed.err, peer |-> <<>>, section |-> s2]
        ELSE [err |-> NoError,
              peer |-> [PublicKey |-> decoded.val, PreSharedKey |-> psk.val,
                        Endpoint |-> IF HasKey(section, "endpoint")
                                     THEN PtrTo(endpoint.val) ELSE NilPtr,
                        KeepAlive |-> keepAlive.val, AllowedIPs |-> allowed.val],
              section |-> s2]

RECURSIVE ParsePeersLoop(_, _, _, _)
\* The loop of ParsePeers from the n-th section on: *peers grows by one
\* peer a pass, and a failing pass returns with the peers appended so far.
ParsePeersLoop(sections, environ, peers, n) ==
    IF n > Len(sections) THEN [err |-> NoError, peers |-> peers, sections |-> sections]
    ELSE Once(ParsePeer(sections[n], environ),
              LAMBDA pass :
                  IF pass.err # NoError
                  THEN [err |-> pass.err, peers |-> peers,
                        sections |-> [sections EXCEPT ![n] = pass.section]]
                  ELSE ParsePeersLoop([sections EXCEPT ![n] = pass.section],
                                      environ, Append(peers, pass.peer), n + 1))


\* ParsePeers going into its loop whatever the number of sections.
ParsePeersResultAnyCount(file, environ, peers) ==
    LET sections == SectionsByName(file, "peer")
    IN  Once(ParsePeersLoop(sections, environ, peers, 1),
             LAMBDA r : [err |-> r.err, peers |-> r.peers,
                         file |-> [file EXCEPT !["peer"] = r.sections]])

\* ParsePeers(cfg, &device.Peers)
ParsePeersResult(file, environ, peers) ==
    LET sections == SectionsByName(file, "peer")
    IN  IF Len(sections) < 1
        THEN [err |-> ErrOnePeer, peers |-> peers, file |-> file]
        ELSE Once(ParsePeersLoop(sections, environ, peers, 1),
                  LAMBDA r : [err |-> r.err, peers |-> r.peers,
                              file |-> [file EXCEPT !["peer"] = r.sections]])

(***************************************************************************)
(* The UAPI requests.  A request is the sequence of its lines, a line the  *)
(* pair of its key and the text fmt.Sprintf writes after "=".              *)
(***************************************************************************)
RECURSIVE DivMod10(_, _)
\* The quotient limbs (most significant first) and the remainder of
\* dividing by ten the limbs given most significant first, rem carried in.
DivMod10(msf, rem) ==
    IF msf = <<>> THEN [quot |-> <<>>, rem |-> rem]
    ELSE LET cur == rem * LimbBase + msf[1]
             rest == DivMod10(Tail(msf), cur % 10)
         IN  [quot |-> <<cur \div 10>> \o rest.quot, rem |-> rest.rem]

Reverse(s) == [i \in 1..Len(s) |-> s[Len(s) + 1 - i]]

RECURSIVE FormatUint(_)
\* %d of an unsigned value: its decimal digits.
FormatUint(limbs) ==
    IF limbs = <<>> THEN <<"0">>
    ELSE LET d == DivMod10(Reverse(limbs), 0)
             quot == Normalize(Reverse(d.quot))
         IN  (IF quot = <<>> THEN <<>> ELSE FormatUint(quot))
                \o <<DigitChars[d.rem + 1]>>

\* %d of an int.
FormatInt(a) == IF a.neg THEN <<"-">> \o FormatUint(a.mag) ELSE FormatUint(a.mag)

\* netip.Prefix.String
PrefixString(prefix) == <<prefix.addr.ip, Slash, ToString(prefix.bits)>>

\* The ASec lines, written the same way by every request that has them.
ASecLines(aSecConfig) ==
    <<<<"jc", FormatInt(IntOf(aSecConfig.junkPacketCount))>>,
      <<"jmin", FormatInt(IntOf(aSecConfig.junkPacketMinSize))>>,
      <<"jmax", FormatInt(IntOf(aSecConfig.junkPacketMaxSize))>>,
      <<"s1", FormatInt(IntOf(aSecConfig.initPacketJunkSize))>>,
      <<"s2", FormatInt(IntOf(aSecConfig.responsePacketJunkSize))>>,
      <<"h1", FormatUint(aSecConfig.initPacketMagicHeader)>>,
      <<"h2", FormatUint(aSecConfig.responsePacketMagicHeader)>>,
      <<"h3", FormatUint(aSecConfig.underloadPacketMagicHeader)>>,
      <<"h4", FormatUint(aSecConfig.transportPacketMagicHeader)>>>>
    \o (IF aSecConfig.i1 # NilPtr THEN <<<<"i1", aSecConfig.i1[1]>>>> ELSE <<>>)
    \o (IF aSecConfig.i2 # NilPtr THEN <<<<"i2", aSecConfig.i2[1]>>>> ELSE <<>>)
    \o (IF aSecConfig.i3 # NilPtr THEN <<<<"i3", aSecConfig.i3[1]>>>> ELSE <<>>)
    \o (IF aSecConfig.i4 # NilPtr THEN <<<<"i4", aSecConfig.i4[1]>>>> ELSE <<>>)
    \o (IF aSecConfig.i5 # NilPtr THEN <<<<"i5", aSecConfig.i5[1]>>>> ELSE <<>>)
    \o (IF aSecConfig.j1 # NilPtr THEN <<<<"j1", aSecConfig.j1[1]>>>> ELSE <<>>)
    \o (IF aSecConfig.j2 # NilPtr THEN <<<<"j2", aSecConfig.j2[1]>>>> ELSE <<>>)
    \o (IF aSecConfig.j3 # NilPtr THEN <<<<"j3", aSecConfig.j3[1]>>>> ELSE <<>>)
    \o (IF aSecConfig.itime # NilPtr
        THEN <<<<"itime", FormatInt(aSecConfig.itime[1])>>>> ELSE <<>>)

\* The device lines: private_key, listen_port and the ASec lines.
DeviceLines(conf) ==
    <<<<"private_key", <<conf.SecretKey>>>>>>
    \o (IF conf.ListenPort # NilPtr
        THEN <<<<"listen_port", FormatInt(conf.ListenPort[1])>>>> ELSE <<>>)
    \o (IF conf.ASecConfig # NilPtr THEN ASecLines(conf.ASecConfig[1]) ELSE <<>>)

\* The lines after a peer's keys: the endpoint and the allowed IPs, with
\* replace_allowed_ips=true where the function writes it, and the function's
\* spelling of the IPv6 default route.
PeerTail(peer, replaceAllowed, default6) ==
    (IF peer.Endpoint # NilPtr THEN <<<<"endpoint", peer.Endpoint[1]>>>> ELSE <<>>)
    \o (IF replaceAllowed THEN <<<<"replace_allowed_ips", <<"true">>>>>> ELSE <<>>)
    \o (IF Len(peer.AllowedIPs) > 0
        THEN [i \in 1..Len(peer.AllowedIPs) |->
                 <<"allowed_ip", PrefixString(peer.AllowedIPs[i])>>]
        ELSE <<<<"allowed_ip", <<"0.0.0.0", Slash, "0">>>>,
               <<"allowed_ip", <<default6, Slash, "0">>>>>>)

\* The three lines of the heredoc of CreateIPCRequest.
PeerHead(peer) ==
    <<<<"public_key", <<peer.PublicKey>>>>,
      <<"persistent_keepalive_interval", FormatInt(peer.KeepAlive)>>,
      <<"preshared_key", <<peer.PreSharedKey>>>>>>

RECURSIVE PeersLines(_, _, _)
\* The loop over conf.Peers of CreateIPCRequest.
PeersLines(peers, replaceAllowed, default6) ==
    IF peers = <<>> THEN <<>>
    ELSE PeerHead(peers[1]) \o PeerTail(peers[1], replaceAllowed, default6)
            \o PeersLines(Tail(peers), replaceAllowed, default6)

\* CreateIPCRequest(conf, isUpdate) of the configuration file's source.
CreateIPCRequestResult(conf, isUpdate) ==
    DeviceLines(conf)
    \o (IF isUpdate THEN <<<<"replace_peers", <<"true">>>>>> ELSE <<>>)
    \o PeersLines(conf.Peers, TRUE, "::")

\* CreateIPCRequest(conf) of wireguard.go, the one StartWireguard calls.
CreateIPCRequestWireguard(conf) ==
    DeviceLines(conf) \o PeersLines(conf.Peers, FALSE, "::0")

RECURSIVE PeerUpdateLines(_)
\* The loop over conf.Peers of CreatePeerIPCRequest.
PeerUpdateLines(peers) ==
    IF peers = <<>> THEN <<>>
    ELSE <<<<"public_key", <<peers[1].PublicKey>>>>,
           <<"update_only", <<"true">>>>,
           <<"persistent_keepalive_interval", FormatInt(peers[1].KeepAlive)>>,
           <<"preshared_key", <<peers[1].PreSharedKey>>>>>>
         \o PeerTail(peers[1], TRUE, "::")
         \o PeerUpdateLines(Tail(peers))

\* CreatePeerIPCRequest(conf)
CreatePeerIPCRequestResult(conf) ==
    <<<<"replace_peers", <<"true">>>>>> \o PeerUpdateLines(conf.Peers)

(***************************************************************************)
(* The documents the parser is run on.  A document is drawn from one of    *)
(* several families, each varying some keys of the [Interface] section     *)
(* around the section of the repository's tests.                           *)
(***************************************************************************)

\* The most elements a list value is built from.
MaxElems == 3

RECURSIVE Choices(_)
\* Every section that takes, for each <<key, options>> pair of the sequence,
\* one of the options: a one-element sequence holding the key's text, or
\* <<>> for a section without the key.
Choices(options) ==
    IF options = <<>> THEN {<<>>}
    ELSE {(IF o = <<>> THEN <<>> ELSE options[1][1] :> o[1]) @@ rest :
              o \in options[1][2], rest \in Choices(Tail(options))}

Absent == <<>>
Txt(t) == <<t>>

\* [Interface] of TestWireguardConfWithoutSubnet.
BaseSection ==
    [privatekey |-> <<KeyB64>>, address |-> <<Addr4>>, dns |-> <<AddrDNS>>]

\* Jc=5, Jmin=10, Jmax=50, S1=0, S2=0 of TestWireguardConfWithAWGParams.
BaseJunk ==
    [jc |-> <<"5">>, jmin |-> <<"1", "0">>, jmax |-> <<"5", "0">>,
     s1 |-> <<"0">>, s2 |-> <<"0">>]

\* H1..H4 = 1, 2, 3, 4.
BaseHeaders ==
    [h1 |-> <<"1">>, h2 |-> <<"2">>, h3 |-> <<"3">>, h4 |-> <<"4">>]

NoSection == <<>>

JcTexts ==
    {Absent, Txt(<<"0">>), Txt(<<"5">>), Txt(<<"2", "0", "0">>),
     Txt(<<"2", "0", "1">>), Txt(<<"-", "1">>), Txt(<<"x">>)}
JminTexts ==
    {Absent, Txt(<<"-", "1">>), Txt(<<"0">>), Txt(<<"1", "0">>), Txt(<<"5", "5">>),
     Txt(<<"1", "2", "8", "0">>), Txt(<<"1", "2", "8", "1">>)}
JmaxTexts ==
    {Absent, Txt(<<"-", "1">>), Txt(<<"0">>), Txt(<<"5", "0">>),
     Txt(<<"1", "2", "8", "0">>), Txt(<<"1", "2", "8", "1">>),
     Txt(<<"1", "3", "0", "0">>)}
S1Texts ==
    {Absent, Txt(<<"-", "1">>), Txt(<<"0">>), Txt(<<"5", "6">>),
     Txt(<<"1", "2", "8", "0">>), Txt(<<"1", "2", "8", "1">>)}
S2Texts ==
    {Absent, Txt(<<"-", "1">>), Txt(<<"0">>), Txt(<<"5", "6">>),
     Txt(<<"1", "1", "2">>), Txt(<<"1", "2", "8", "0">>),
     Txt(<<"1", "2", "8", "1">>)}
HeaderTexts ==
    {Absent, Txt(<<"0">>), Txt(<<"1">>), Txt(<<"2">>), Txt(<<"3">>), Txt(<<"4">>),
     Txt(<<"4", "2", "9", "4", "9", "6", "7", "2", "9", "5">>),
     Txt(<<"4", "2", "9", "4", "9", "6", "7", "2", "9", "6">>)}

\* The junk and size keys vary; the headers are absent or 1, 2, 3, 4.
JunkSections ==
    {BaseSection @@ j @@ h :
        j \in Choices(<<<<"jc", JcTexts>>,
                       <<"jmin", JminTexts>>,
                       <<"jmax", JmaxTexts>>,
                       <<"s1", S1Texts>>,
                       <<"s2", S2Texts>>>>),
        h \in {NoSection, BaseHeaders}}

\* The headers vary; the junk and size keys are absent or those of the test.
HeaderSections ==
    {BaseSection @@ h @@ j :
        h \in Choices(<<<<"h1", HeaderTexts>>,
                       <<"h2", HeaderTexts>>,
                       <<"h3", HeaderTexts>>,
                       <<"h4", HeaderTexts>>>>),
        j \in {NoSection, BaseJunk}}

SpecialJunk1 == <<"<b 0xA1B2C3D4E5F6>">>
SpecialJunk2 == <<"<r 16>">>
ITexts == {Absent, Txt(SpecialJunk1)}
ITimeTexts ==
    {Absent, Txt(<<"0">>), Txt(<<"3", "0">>), Txt(<<"-", "1">>), Txt(<<"x">>)}

\* The opaque strings and ITime vary.
StringSections ==
    {BaseSection @@ i @@ r :
        i \in Choices(<<<<"i1", ITexts \cup {Txt(SpecialJunk2), Txt(<<>>)}>>,
                       <<"i2", ITexts>>,
                       <<"i3", ITexts>>,
                       <<"i4", ITexts>>,
                       <<"i5", ITexts>>,
                       <<"j1", ITexts>>,
                       <<"j2", ITexts>>,
                       <<"j3", ITexts>>,
                       <<"itime", ITimeTexts>>>>),
        r \in {NoSection, BaseJunk @@ BaseHeaders}}

\* The pieces an Address value is joined from.
AddressElems ==
    {<<>>, <<Space>>, <<Addr4>>, <<Space, Addr4b, Space>>, <<Addr6>>,
     <<Addr4, Slash, "23">>, <<Addr4, Slash, "33">>,
     <<Space, Addr6lower, Slash, "128">>, <<Addr4, Slash>>, <<"junk">>}

RECURSIVE Join(_)
\* strings.Join(elems, ",")
Join(elems) ==
    IF elems = <<>> THEN <<>>
    ELSE IF Len(elems) = 1 THEN elems[1]
    ELSE elems[1] \o <<Comma>> \o Join(Tail(elems))

ListTexts(elems) ==
    {Join(es) : es \in UNION {[1..n -> elems] : n \in 1..MaxElems}}

\* The Address of TestWireguardConfWithManyAddress.
ManyAddress == <<Addr4b, Comma, Addr6, Slash, "128">>

EnvName == <<"WG_ADDRESS">>
Environs ==
    {<<>>, EnvName :> ManyAddress, EnvName :> <<"junk">>}

AddressTexts ==
    {Txt(t) : t \in ListTexts(AddressElems)}
        \cup {Absent, Txt(ManyAddress), Txt(<<Dollar>> \o EnvName),
              Txt(<<Dollar, Dollar, Addr4>>), Txt(<<Dollar>>)}

\* The Address varies, and the environment with it.
AddressSections ==
    {[privatekey |-> <<KeyB64>>, dns |-> <<AddrDNS>>] @@ a :
        a \in Choices(<<<<"address", AddressTexts>>>>)}

CheckAliveTexts ==
    {Absent, Txt(<<>>), Txt(<<Addr4>>), Txt(<<Addr4, Comma, Space, Addr6>>),
     Txt(<<Comma>>), Txt(<<"junk">>)}
IntervalTexts ==
    {Absent, Txt(<<>>), Txt(<<"5">>), Txt(<<"1", "0">>), Txt(<<"0">>),
     Txt(<<"-", "1">>), Txt(<<"x">>)}

\* CheckAlive and CheckAliveInterval vary, with the keys parsed around them.
AliveSections ==
    {s @@ [address |-> <<Addr4>>, dns |-> <<AddrDNS>>] :
        s \in Choices(<<<<"checkalive", CheckAliveTexts>>,
                        <<"checkaliveinterval", IntervalTexts>>,
                        <<"privatekey", {Absent, Txt(<<KeyB64>>), Txt(<<ShortB64>>)}>>,
                        <<"blockeddomains", {Absent, Txt(<<Dollar, "UNSET">>)}>>,
                        <<"jc", {Absent, Txt(<<"5">>), Txt(<<"2", "0", "1">>)}>>>>)}

\* The remaining keys of [Interface] vary.
DeviceSections ==
    {s @@ [address |-> <<Addr4>>] :
        s \in Choices(<<<<"privatekey", {Absent, Txt(<<KeyB64>>), Txt(<<KeyB64b>>),
                                         Txt(<<ShortB64>>), Txt(<<"junk">>)}>>,
                        <<"dns", {Absent, Txt(<<AddrDNS>>), Txt(<<"junk">>)}>>,
                        <<"mtu", {Absent, Txt(<<"1", "2", "8", "0">>), Txt(<<"x">>)}>>,
                        <<"listenport", {Absent, Txt(<<"5", "1", "8", "2", "0">>),
                                         Txt(<<"-", "1">>),
                                         Txt(<<"7", "0", "0", "0", "0">>)}>>,
                        <<"domainblockingenabled", {Absent, Txt(<<"true">>),
                                                    Txt(<<"maybe">>)}>>,
                        <<"blockeddomains", {Absent,
                                             Txt(<<"ads.example", Comma, Space,
                                                   "tracker.example">>)}>>>>)}

\* An ini.File: its sections by (lower-cased) name.
FileOf(interfaces) == [interface |-> interfaces]

\* The documents with one [Interface] section drawn from sections.
Files(sections) == {FileOf(<<s>>) : s \in sections}

Init ==
    /\ \/ cfg \in Files(JunkSections) /\ env = <<>>
       \/ cfg \in Files(HeaderSections) /\ env = <<>>
       \/ cfg \in Files(StringSections) /\ env = <<>>
       \/ cfg \in Files(AliveSections) /\ env = <<>>
       \/ cfg \in Files(DeviceSections) /\ env = <<>>
       \/ cfg \in Files(AddressSections) /\ env \in Environs
       \/ cfg \in {FileOf(<<>>), FileOf(<<BaseSection, BaseSection>>)} /\ env = <<>>
    /\ device = NewDeviceConfig
    /\ err = NoError
    /\ pc = "start"
    /\ request = <<>>
    /\ reparsed = <<>>
    /\ ProxyIdle
    /\ MainIdle
    /\ HealthIdle

\* ParseInterface(cfg, device) is called and returns.
ParseInterface ==
    /\ pc = "start"
    /\ \E r \in {ParseInterfaceResult(cfg, env, device)} :
          /\ device' = r.device
          /\ err' = r.err
          /\ cfg' = r.file
    /\ pc' = "done"
    /\ UNCHANGED <<env, request, reparsed>>
    /\ UNCHANGED proxyVars
    /\ UNCHANGED <<mainVars, healthVars>>

Next == ParseInterface

Spec == Init /\ [][Next]_vars

(***************************************************************************)
(* Parse and the requests made of its DeviceConfig.  The documents have    *)
(* [Peer] sections; Parse calls ParseInterface, then ParsePeers, and the   *)
(* device it returns is serialized by one of the request builders.         *)
(***************************************************************************)
FileWith(interfaces, peers) == [interface |-> interfaces, peer |-> peers]

\* The [Peer] of the tests, with addresses of the model.
BasePeer ==
    [publickey |-> <<KeyB64b>>,
     allowedips |-> <<Addr4, Slash, "0", Comma, Space, Addr6lower, Slash, "0">>,
     endpoint |-> <<Addr4b, Colon, "51820">>,
     persistentkeepalive |-> <<"2", "5">>]

\* A peer of its public key alone, and one whose key is too short.
BarePeer == [publickey |-> <<KeyB64>>]
ShortPeer == [publickey |-> <<ShortB64>>]

\* The keys of one [Peer] vary.
PeerSections ==
    Choices(<<<<"publickey", {Absent, Txt(<<KeyB64b>>), Txt(<<ShortB64>>)}>>,
              <<"presharedkey", {Absent, Txt(<<KeyB64>>), Txt(<<"junk">>)}>>,
              <<"endpoint", {Absent, Txt(<<Addr4b, Colon, "51820">>),
                             Txt(<<"[", Addr6, "]", Colon, "51820">>),
                             Txt(<<Addr4b>>)}>>,
              <<"persistentkeepalive", {Absent, Txt(<<"2", "5">>), Txt(<<"x">>)}>>,
              <<"allowedips", {Absent, Txt(<<Addr4, Slash, "23">>),
                               Txt(<<Addr6, Slash, "128", Comma, Comma, Space,
                                     Addr4, Slash, "32">>),
                               Txt(<<Comma>>), Txt(<<Addr4>>)}>>>>)

\* The [Peer] sections of a document: none, one, or up to MaxElems of a few.
PeerLists ==
    {<<>>} \cup {<<p>> : p \in PeerSections}
        \cup UNION {[1..n -> {BasePeer, BarePeer, ShortPeer}] : n \in 2..MaxElems}

\* Some [Interface] sections with and without ListenPort and ASec keys.
InterfaceSections ==
    {BaseSection @@ s :
        s \in Choices(<<<<"listenport", {Absent, Txt(<<"5", "1", "8", "2", "0">>),
                                         Txt(<<"0">>), Txt(<<"6", "5", "5", "3", "5">>),
                                         Txt(<<"6", "5", "5", "3", "6">>),
                                         Txt(<<"7", "0", "0", "0", "0">>),
                                         Txt(<<"-", "1">>), Txt(<<"x">>)}>>,
                        <<"jc", {Absent, Txt(<<"5">>)}>>,
                        <<"h1", {Absent, Txt(<<"4", "2", "9", "4", "9", "6", "7",
                                               "2", "9", "5">>)}>>,
                        <<"h2", {Absent, Txt(<<"2">>)}>>,
                        <<"h3", {Absent, Txt(<<"3">>)}>>,
                        <<"h4", {Absent, Txt(<<"4">>)}>>,
                        <<"i1", ITexts>>, <<"i3", ITexts>>, <<"j2", ITexts>>,
                        <<"itime", {Absent, Txt(<<"3", "0">>)}>>>>)}

InitDevice ==
    /\ \/ cfg \in {FileWith(<<BaseSection>>, peers) : peers \in PeerLists}
       \/ cfg \in {FileWith(<<s>>, <<BasePeer>>) : s \in InterfaceSections}
       \/ cfg \in {FileWith(<<s>>, <<BarePeer, BasePeer>>) : s \in InterfaceSections}
       \/ cfg \in {FileWith(interfaces, peers) :
                       interfaces \in {<<>>, <<BaseSection, BaseSection>>},
                       peers \in {<<>>, <<BasePeer>>}}
    /\ env = <<>>
    /\ device = NewDeviceConfig
    /\ err = NoError
    /\ pc = "start"
    /\ request = <<>>
    /\ reparsed = <<>>
    /\ ProxyIdle
    /\ MainIdle
    /\ HealthIdle

\* Parse: ParsePeers(wgCfg, &device.Peers) after a ParseInterface without
\* error.
ParsePeers ==
    /\ pc = "done" /\ err = NoError
    /\ \E r \in {ParsePeersResult(cfg, env, device.Peers)} :
          /\ device' = [device EXCEPT !.Peers = r.peers]
          /\ err' = r.err
          /\ cfg' = r.file
    /\ pc' = "parsed"
    /\ UNCHANGED <<env, request, reparsed>>
    /\ UNCHANGED proxyVars
    /\ UNCHANGED <<mainVars, healthVars>>

\* CreateIPCRequest(conf, isUpdate) on the device Parse returned.
CreateIPCRequest ==
    /\ pc = "parsed" /\ err = NoError
    /\ \E isUpdate \in BOOLEAN :
          request' = CreateIPCRequestResult(device, isUpdate)
    /\ pc' = "CreateIPCRequest"
    /\ UNCHANGED <<cfg, env, device, err, reparsed>>
    /\ UNCHANGED proxyVars
    /\ UNCHANGED <<mainVars, healthVars>>

\* CreateIPCRequest(conf) of StartWireguard on the device Parse returned.
StartWireguard ==
    /\ pc = "parsed" /\ err = NoError
    /\ request' = CreateIPCRequestWireguard(device)
    /\ pc' = "StartWireguard"
    /\ UNCHANGED <<cfg, env, device, err, reparsed>>
    /\ UNCHANGED proxyVars
    /\ UNCHANGED <<mainVars, healthVars>>

\* CreatePeerIPCRequest(conf) on the device Parse returned.
CreatePeerIPCRequest ==
    /\ pc = "parsed" /\ err = NoError
    /\ request' = CreatePeerIPCRequestResult(device)
    /\ pc' = "CreatePeerIPCRequest"
    /\ UNCHANGED <<cfg, env, device, err, reparsed>>
    /\ UNCHANGED proxyVars
    /\ UNCHANGED <<mainVars, healthVars>>

\* A variant of LoadSources that reads the lines as an [Interface] section.
LoadSourcesAsInterface(lines) ==
    [interface |-> <<[k \in {lines[i][1] : i \in 1..Len(lines)} |->
                        lines[CHOOSE i \in 1..Len(lines) : lines[i][1] = k][2]]>>,
     peer |-> <<>>, default |-> <<>>]

\* ini.LoadSources of a request text: no line of it is a section header, so
\* its keys are those of the default section, a repeated key keeping its
\* first value (AllowShadows makes the later ones its shadows), and the file
\* has no section of any other name.
LoadSources(lines) ==
    [interface |-> <<>>, peer |-> <<>>,
     default |-> <<[k \in {lines[i][1] : i \in 1..Len(lines)} |->
                      lines[CHOOSE i \in 1..Len(lines) :
                                /\ lines[i][1] = k
                                /\ \A j \in 1..(i - 1) : lines[j][1] # k][2]]>>]

\* Parse(cfg): ParseInterface and ParsePeers on a new DeviceConfig; the
\* Configuration is nil with an error.
ParseResult(file, environ) ==
    Once(ParseInterfaceResult(file, environ, NewDeviceConfig),
         LAMBDA i :
             IF i.err # NoError THEN [err |-> i.err, conf |-> NilPtr]
             ELSE Once(ParsePeersResult(i.file, environ, i.device.Peers),
                       LAMBDA p :
                           IF p.err # NoError THEN [err |-> p.err, conf |-> NilPtr]
                           ELSE [err |-> NoError,
                                 conf |-> PtrTo([i.device EXCEPT !.Peers = p.peers])]))

\* ParseConfigString on the text of the request CreateIPCRequest built.
ParseConfigString ==
    /\ pc \in {"CreateIPCRequest", "StartWireguard"}
    /\ reparsed' = PtrTo(ParseResult(LoadSources(request), env))
    /\ pc' = "ParseConfigString"
    /\ UNCHANGED <<cfg, env, device, err, request>>
    /\ UNCHANGED proxyVars
    /\ UNCHANGED <<mainVars, healthVars>>

NextDevice ==
    \/ ParseInterface
    \/ ParsePeers
    \/ CreateIPCRequest
    \/ StartWireguard
    \/ CreatePeerIPCRequest
    \/ ParseConfigString

SpecDevice == InitDevice /\ [][NextDevice]_vars

(***************************************************************************)
(* The list values of [Interface] and [Peer]: documents whose DNS,         *)
(* Address, CheckAlive, BlockedDomains or AllowedIPs is a list with empty  *)
(* and padded elements.                                                    *)
(***************************************************************************)
\* The pieces of a list value: nothing, a space, an element, and an element
\* with spaces around it.
Pieces(first, second) ==
    {<<>>, <<Space>>, first, <<Space>> \o second \o <<Space>>}

ListSections ==
    {[BaseSection EXCEPT !.dns = t] : t \in ListTexts(Pieces(<<AddrDNS>>, <<Addr6>>))}
    \cup {[BaseSection EXCEPT !.address = t] :
             t \in ListTexts(Pieces(<<Addr4>>, <<Addr6, Slash, "128">>))}
    \cup {BaseSection @@ [checkalive |-> t] : t \in ListTexts(Pieces(<<Addr4>>, <<Addr6>>))}
    \cup {BaseSection @@ [blockeddomains |-> t] :
             t \in ListTexts(Pieces(<<"ads.example">>, <<"tracker.example">>))}

ListPeers ==
    {[BasePeer EXCEPT !.allowedips = t] :
        t \in ListTexts(Pieces(<<Addr4, Slash, "32">>, <<Addr6lower, Slash, "0">>))}

InitLists ==
    /\ \/ cfg \in {FileWith(<<s>>, <<BasePeer>>) : s \in ListSections}
       \/ cfg \in {FileWith(<<BaseSection>>, <<p>>) : p \in ListPeers}
    /\ env = <<>>
    /\ device = NewDeviceConfig
    /\ err = NoError
    /\ pc = "start"
    /\ request = <<>>
    /\ reparsed = <<>>
    /\ ProxyIdle
    /\ MainIdle
    /\ HealthIdle

NextLists ==
    \/ ParseInterface
    \/ ParsePeers

SpecLists == InitLists /\ [][NextLists]_vars

(***************************************************************************)
(* The proxy servers.  A [http] or [Socks5] section is parsed to a         *)
(* configuration, SpawnRoutine builds the server from it, and the server   *)
(* serves a connection.  A string is the sequence of its tokens, "" the    *)
(* empty sequence.                                                         *)
(***************************************************************************)

\* parseHTTPConfig: BindAddress must interpolate; the errors of Username
\* and Password are dropped, which leaves them "".
parseHTTPConfig(section, environ) ==
    LET bindAddress == parseString(section, environ, "bindaddress")
    IN  IF bindAddress.err # NoError THEN [err |-> bindAddress.err, config |-> NilPtr]
        ELSE [err |-> NoError,
              config |-> PtrTo([kind |-> "http",
                                BindAddress |-> bindAddress.val,
                                Username |-> parseString(section, environ, "username").val,
                                Password |-> parseString(section, environ, "password").val])]

\* parseSocks5Config
parseSocks5Config(section, environ) ==
    LET bindAddress == parseString(section, environ, "bindaddress")
    IN  IF bindAddress.err # NoError THEN [err |-> bindAddress.err, config |-> NilPtr]
        ELSE [err |-> NoError,
              config |-> PtrTo([kind |-> "socks5",
                                BindAddress |-> bindAddress.val,
                                Username |-> parseString(section, environ, "username").val,
                                Password |-> parseString(section, environ, "password").val])]

RECURSIVE parseRoutinesLoop(_, _, _, _)
\* The loop of parseRoutinesConfig: the first section that fails ends it.
parseRoutinesLoop(sections, environ, kind, spawners) ==
    IF sections = <<>> THEN [err |-> NoError, routines |-> spawners]
    ELSE LET r == IF kind = "http" THEN parseHTTPConfig(sections[1], environ)
                  ELSE parseSocks5Config(sections[1], environ)
         IN  IF r.err # NoError THEN [err |-> r.err, routines |-> spawners]
             ELSE parseRoutinesLoop(Tail(sections), environ, kind,
                                    Append(spawners, r.config[1]))

\* parseRoutinesConfig for "Socks5" and then for "http", as Parse calls it.
parseRoutinesConfig(file, environ) ==
    LET socks == parseRoutinesLoop(SectionsByName(file, "socks5"), environ,
                                   "socks5", <<>>)
    IN  IF socks.err # NoError THEN socks
        ELSE parseRoutinesLoop(SectionsByName(file, "http"), environ,
                               "http", socks.routines)

\* HTTPConfig.SpawnRoutine: the server it listens with.
HTTPSpawnRoutine(config) ==
    [kind |-> "http",
     auth |-> [username |-> config.Username, password |-> config.Password],
     authRequired |-> config.Username # <<>> \/ config.Password # <<>>]

\* Socks5Config.SpawnRoutine: the authenticators it gives the server.
Socks5SpawnRoutine(config) ==
    [kind |-> "socks5",
     authMethods |->
         IF config.Username # <<>>
         THEN <<[method |-> "UserPass",
                 Credentials |-> (config.Username :> config.Password)]>>
         ELSE <<[method |-> "NoAuth"]>>]

\* CredentialValidator.Valid: both comparisons must give 1.
Valid(c, username, password) ==
    LET u == IF c.username = username THEN 1 ELSE 0
        p == IF c.password = password THEN 1 ELSE 0
    IN  u = 1 /\ p = 1

\* Base64 texts of credentials and the bytes they decode to.
B64UserPass == "dXNlcjpwYXNz"
B64UserWrong == "dXNlcjp3cm9uZw=="
B64User == "dXNlcg=="
B64ColonPass == "OnBhc3M="
B64UserColon == "dXNlcjo="
B64Invalid == "dXNlcjpwYXNz!"

\* base64.StdEncoding.DecodeString of a header value.
DecodeCredentials(enc) ==
    CASE enc = <<>> -> [err |-> NoError, str |-> <<>>]
      [] enc = <<B64UserPass>> -> [err |-> NoError, str |-> <<"user", Colon, "pass">>]
      [] enc = <<B64UserWrong>> -> [err |-> NoError, str |-> <<"user", Colon, "wrong">>]
      [] enc = <<B64User>> -> [err |-> NoError, str |-> <<"user">>]
      [] enc = <<B64ColonPass>> -> [err |-> NoError, str |-> <<Colon, "pass">>]
      [] enc = <<B64UserColon>> -> [err |-> NoError, str |-> <<"user", Colon>>]
      [] OTHER -> [err |-> "illegal base64 data", str |-> <<>>]

\* strings.TrimPrefix(auth, "Basic ")
TrimPrefixBasic(auth) ==
    IF auth # <<>> /\ auth[1] = "Basic " THEN Tail(auth) ELSE auth

\* bytes.SplitN(str, ":", 2): at most two parts, cut at the first colon.
SplitN2(str) ==
    IF \E i \in 1..Len(str) : str[i] = Colon
    THEN LET i == CHOOSE i \in 1..Len(str) :
                      /\ str[i] = Colon
                      /\ \A j \in 1..(i - 1) : str[j] # Colon
         IN  <<SubSeq(str, 1, i - 1), SubSeq(str, i + 1, Len(str))>>
    ELSE <<str>>

StatusProxyAuthRequired == "407 Proxy Authentication Required"
StatusNotAcceptable == "406 Not Acceptable"
StatusLengthRequired == "411 Length Required"
StatusUnauthorized == "401 Unauthorized"
StatusMethodNotAllowed == "405 Method Not Allowed"
StatusNone == "0"

\* A variant of authenticate that takes any well-formed pair.
authenticateAnyPair(s, r) ==
    IF ~s.authRequired THEN [code |-> StatusNone, err |-> NoError]
    ELSE IF r.ProxyAuthorization = <<>>
    THEN [code |-> StatusProxyAuthRequired, err |-> "Proxy Authentication Required"]
    ELSE LET decoded == DecodeCredentials(TrimPrefixBasic(r.ProxyAuthorization))
         IN  IF decoded.err # NoError
             THEN [code |-> StatusNotAcceptable,
                   err |-> "decode username and password failed"]
             ELSE IF Len(SplitN2(decoded.str)) # 2
             THEN [code |-> StatusLengthRequired,
                   err |-> "username and password format invalid"]
             ELSE [code |-> StatusNone, err |-> NoError]

\* HTTPServer.authenticate
authenticate(s, r) ==
    IF ~s.authRequired THEN [code |-> StatusNone, err |-> NoError]
    ELSE IF r.ProxyAuthorization = <<>>
    THEN [code |-> StatusProxyAuthRequired, err |-> "Proxy Authentication Required"]
    ELSE LET decoded == DecodeCredentials(TrimPrefixBasic(r.ProxyAuthorization))
             pairs == SplitN2(decoded.str)
         IN  IF decoded.err # NoError
             THEN [code |-> StatusNotAcceptable,
                   err |-> "decode username and password failed"]
             ELSE IF Len(pairs) # 2
             THEN [code |-> StatusLengthRequired,
                   err |-> "username and password format invalid"]
             ELSE IF Valid(s.auth, pairs[1], pairs[2])
             THEN [code |-> StatusNone, err |-> NoError]
             ELSE [code |-> StatusUnauthorized,
                   err |-> "username and password not matching"]

\* responseWith(req, code): the response of that status, without headers.
responseWith(r, code) == [status |-> code, header |-> <<>>]

\* strings.Contains(addr, ":"): an IPv6 literal has colons of its own.
ContainsColon(addr) ==
    \E i \in 1..Len(addr) : addr[i] = Colon \/ addr[i] \in {Addr6, Addr6lower}

\* The address handleConn and handle dial: req.Host, with the port joined on
\* when it holds no colon.
DialAddr(host, port) ==
    IF ~ContainsColon(host) THEN host \o <<Colon, port>> ELSE host

\* The ports handleConn and handle join on.
handleConnPort == "443"
handlePort == "80"

\* The switch of serve on req.Method (a variant: every other method is
\* handled as GET is).
MethodCaseGetByDefault(method) ==
    CASE method = "CONNECT" -> "handleConn"
      [] OTHER -> "handle"

MethodCase(method) ==
    CASE method = "CONNECT" -> "handleConn"
      [] method = "GET" -> "handle"
      [] OTHER -> "default"

\* The authentication of the SOCKS5 library the server is built on: the
\* first configured authenticator whose method the client offers is run;
\* NoAuth accepts, UserPass accepts the pair that is in its Credentials.
Socks5Authenticate(authMethods, r) ==
    LET offered == {i \in 1..Len(authMethods) : authMethods[i].method \in r.methods}
    IN  IF offered = {} THEN "no acceptable method"
        ELSE LET a == authMethods[CHOOSE i \in offered : \A j \in offered : i <= j]
             IN  IF a.method = "NoAuth" THEN NoError
                 ELSE IF /\ r.user \in DOMAIN a.Credentials
                         /\ a.Credentials[r.user] = r.password
                      THEN NoError
                      ELSE "user authentication failed"

(***************************************************************************)
(* One connection to a proxy server.  The client and the dialed peer are   *)
(* the environment: they send, and they close, when they like.             *)
(***************************************************************************)

\* The [http] and [Socks5] sections: Username and Password absent, empty
\* or set.
RoutineSections ==
    Choices(<<<<"bindaddress", {Txt(<<"127.0.0.1", Colon, "25345">>)}>>,
              <<"username", {Absent, Txt(<<>>), Txt(<<"user">>)}>>,
              <<"password", {Absent, Txt(<<>>), Txt(<<"pass">>)}>>>>)

\* The requests of a client of the HTTP proxy.
HostTexts ==
    {<<"example.com">>, <<"example.com", Colon, "8443">>, <<"[", Addr6lower, "]">>}

HTTPRequests ==
    [Method : {"CONNECT", "GET", "POST"},
     Host : HostTexts,
     ProxyAuthorization :
         {<<>>, <<"Basic ", B64UserPass>>, <<B64UserPass>>,
          <<"Basic ", B64UserWrong>>, <<"Basic ", B64User>>,
          <<"Basic ", B64ColonPass>>, <<"Basic ", B64UserColon>>,
          <<"Basic ", B64Invalid>>}]

\* The requests of a client of the SOCKS5 proxy: the methods it offers and
\* the pair it presents when asked.
Socks5Requests ==
    [methods : {{"NoAuth"}, {"UserPass"}, {"NoAuth", "UserPass"}},
     user : {<<>>, <<"user">>},
     password : {<<>>, <<"pass">>, <<"wrong">>},
     Host : {<<"example.com", Colon, "443">>}]

\* A connection just opened.
NewConn ==
    [closed |-> FALSE, eof |-> FALSE, pending |-> FALSE, received |-> FALSE,
     written |-> <<>>]

InitProxy ==
    /\ \/ cfg \in {[http |-> <<s>>] : s \in RoutineSections}
       \/ cfg \in {[socks5 |-> <<s>>] : s \in RoutineSections}
       \/ cfg \in {[socks5 |-> <<s>>, http |-> <<s>>] :
                      s \in {[bindaddress |-> <<Dollar, "BIND">>],
                             [bindaddress |-> <<"127.0.0.1", Colon, "25345">>,
                              password |-> <<"pass">>]}}
    /\ env = <<>>
    /\ device = NewDeviceConfig
    /\ err = NoError
    /\ pc = "start"
    /\ request = <<>>
    /\ reparsed = <<>>
    /\ ProxyIdle
    /\ MainIdle
    /\ HealthIdle

\* Parse: parseRoutinesConfig for the Socks5 and the http sections.
ParseRoutines ==
    /\ pc = "start"
    /\ \E r \in {parseRoutinesConfig(cfg, env)} :
          /\ err' = r.err
          /\ routines' = r.routines
    /\ pc' = "routines"
    /\ UNCHANGED <<cfg, env, device, request, reparsed>>
    /\ UNCHANGED <<server, req, conn, peerConn, dials, spc, relay>>
    /\ UNCHANGED <<mainVars, healthVars>>

\* HTTPConfig.SpawnRoutine up to ListenAndServe's listener.
SpawnHTTP ==
    /\ pc = "routines" /\ err = NoError
    /\ \E i \in 1..Len(routines) :
          /\ routines[i].kind = "http"
          /\ server' = PtrTo(HTTPSpawnRoutine(routines[i]))
    /\ spc' = "listening"
    /\ pc' = "spawned"
    /\ UNCHANGED <<cfg, env, device, err, request, reparsed>>
    /\ UNCHANGED <<routines, req, conn, peerConn, dials, relay>>
    /\ UNCHANGED <<mainVars, healthVars>>

\* Socks5Config.SpawnRoutine up to its listener.
SpawnSocks5 ==
    /\ pc = "routines" /\ err = NoError
    /\ \E i \in 1..Len(routines) :
          /\ routines[i].kind = "socks5"
          /\ server' = PtrTo(Socks5SpawnRoutine(routines[i]))
    /\ spc' = "listening"
    /\ pc' = "spawned"
    /\ UNCHANGED <<cfg, env, device, err, request, reparsed>>
    /\ UNCHANGED <<routines, req, conn, peerConn, dials, relay>>
    /\ UNCHANGED <<mainVars, healthVars>>

parseVars == <<cfg, env, device, err, pc, request, reparsed, routines>>

\* listener.Accept returns a connection, and a task is started for it.
Accept ==
    /\ spc = "listening"
    /\ conn' = PtrTo(NewConn)
    /\ spc' = "accepted"
    /\ UNCHANGED parseVars
    /\ UNCHANGED <<server, req, peerConn, dials, relay>>
    /\ UNCHANGED <<mainVars, healthVars>>

\* serve: http.ReadRequest.  A client that has closed gives an error and
\* serve returns.
ReadRequest ==
    /\ spc = "accepted" /\ server[1].kind = "http"
    /\ \/ /\ conn[1].eof
          /\ spc' = "returned"
          /\ req' = req
       \/ /\ ~conn[1].eof
          /\ \E r \in HTTPRequests : req' = PtrTo(r)
          /\ spc' = "authenticate"
    /\ UNCHANGED parseVars
    /\ UNCHANGED <<server, conn, peerConn, dials, relay>>
    /\ UNCHANGED <<mainVars, healthVars>>

Written(c, response) == [c EXCEPT ![1].written = Append(@, response)]

\* serve: authenticate, and the response to a request that fails it.
ServeAuthenticate ==
    /\ spc = "authenticate"
    /\ \E a \in {authenticate(server[1], req[1])} :
          IF a.err # NoError
          THEN /\ conn' = Written(conn,
                     IF a.code = StatusProxyAuthRequired
                     THEN [responseWith(req[1], a.code) EXCEPT
                              !.header = <<"Proxy-Authenticate",
                                           "Basic realm=\"Proxy\"">>]
                     ELSE responseWith(req[1], a.code))
               /\ spc' = "returned"
          ELSE /\ conn' = conn
               /\ spc' = "method"
    /\ UNCHANGED parseVars
    /\ UNCHANGED <<server, req, peerConn, dials, relay>>
    /\ UNCHANGED <<mainVars, healthVars>>

\* serve: the switch on req.Method.
ServeMethod ==
    /\ spc = "method"
    /\ \E case \in {MethodCase(req[1].Method)} :
          IF case = "default"
          THEN /\ conn' = Written(conn, responseWith(req[1], StatusMethodNotAllowed))
               /\ spc' = "returned"
          ELSE /\ conn' = conn
               /\ spc' = case
    /\ UNCHANGED parseVars
    /\ UNCHANGED <<server, req, peerConn, dials, relay>>
    /\ UNCHANGED <<mainVars, healthVars>>

\* s.dial("tcp", addr): the tunnel connects or does not.
Dial(addr, dialed) ==
    /\ dials' = Append(dials, addr)
    /\ \/ /\ peerConn' = PtrTo(NewConn)
          /\ spc' = dialed
       \/ /\ peerConn' = NilPtr
          /\ spc' = "returned"

\* handleConn up to its dial; serve returns on the dial's error.
HandleConnDial ==
    /\ spc = "handleConn"
    /\ Dial(DialAddr(req[1].Host, handleConnPort), "handleConnWrite")
    /\ UNCHANGED parseVars
    /\ UNCHANGED <<server, req, conn, relay>>
    /\ UNCHANGED <<mainVars, healthVars>>

\* The two relay tasks serve starts.
RelayStarted == [toConn |-> "running", toPeer |-> "running"]

Established == "HTTP/1.1 200 Connection established"

\* handleConn after its dial: the 200 line is written to the client or the
\* write fails, and then the peer is closed and serve returns; serve starts
\* the relay tasks on the peer handleConn returned.
HandleConnWrite ==
    /\ spc = "handleConnWrite"
    /\ \/ /\ ~conn[1].closed
          /\ conn' = Written(conn, [status |-> Established, header |-> <<>>])
          /\ peerConn' = peerConn
          /\ relay' = RelayStarted
          /\ spc' = "wait"
       \/ /\ conn[1].eof \/ conn[1].closed
          /\ conn' = conn
          /\ peerConn' = [peerConn EXCEPT ![1].closed = TRUE]
          /\ relay' = relay
          /\ spc' = "returned"
    /\ UNCHANGED parseVars
    /\ UNCHANGED <<server, req, dials>>
    /\ UNCHANGED <<mainVars, healthVars>>

\* handle up to its dial.
HandleDial ==
    /\ spc = "handle"
    /\ Dial(DialAddr(req[1].Host, handlePort), "handleWrite")
    /\ UNCHANGED parseVars
    /\ UNCHANGED <<server, req, conn, relay>>
    /\ UNCHANGED <<mainVars, healthVars>>

\* handle after its dial: the request is written to the peer or the write
\* fails, and then the peer is closed and serve returns.
HandleWrite ==
    /\ spc = "handleWrite"
    /\ \/ /\ ~peerConn[1].closed
          /\ peerConn' = Written(peerConn, req[1])
          /\ relay' = RelayStarted
          /\ spc' = "wait"
       \/ /\ peerConn[1].eof \/ peerConn[1].closed
          /\ peerConn' = [peerConn EXCEPT ![1].closed = TRUE]
          /\ relay' = relay
          /\ spc' = "returned"
    /\ UNCHANGED parseVars
    /\ UNCHANGED <<server, req, conn, dials>>
    /\ UNCHANGED <<mainVars, healthVars>>

\* One round of io.Copy(dst, src), or its end: the outcomes it can have.
\* Read gives what src has pending, and the write of it to a dst whose other
\* end has closed may fail; with nothing pending, Read returns when src is
\* at its end or closed, and blocks otherwise.
CopyRound(src, dst) ==
    IF src.pending /\ ~src.closed
    THEN (IF ~dst.closed
          THEN {[src |-> [src EXCEPT !.pending = FALSE],
                 dst |-> [dst EXCEPT !.received = TRUE], done |-> FALSE]}
          ELSE {})
         \cup
         (IF dst.closed \/ dst.eof
          THEN {[src |-> [src EXCEPT !.pending = FALSE], dst |-> dst, done |-> TRUE]}
          ELSE {})
    ELSE IF src.eof \/ src.closed
         THEN {[src |-> src, dst |-> dst, done |-> TRUE]}
         ELSE {}

\* The task of io.Copy(conn, peer).
CopyPeerToConn ==
    /\ spc = "wait" /\ relay.toConn = "running"
    /\ \E r \in CopyRound(peerConn[1], conn[1]) :
          /\ peerConn' = PtrTo(r.src)
          /\ conn' = PtrTo(r.dst)
          /\ relay' = IF r.done THEN [relay EXCEPT !.toConn = "done"] ELSE relay
    /\ UNCHANGED parseVars
    /\ UNCHANGED <<server, req, dials, spc>>
    /\ UNCHANGED <<mainVars, healthVars>>

\* The task of io.Copy(peer, conn).
CopyConnToPeer ==
    /\ spc = "wait" /\ relay.toPeer = "running"
    /\ \E r \in CopyRound(conn[1], peerConn[1]) :
          /\ conn' = PtrTo(r.src)
          /\ peerConn' = PtrTo(r.dst)
          /\ relay' = IF r.done THEN [relay EXCEPT !.toPeer = "done"] ELSE relay
    /\ UNCHANGED parseVars
    /\ UNCHANGED <<server, req, dials, spc>>
    /\ UNCHANGED <<mainVars, healthVars>>


\* serve with a wg.Wait that returns when the task of io.Copy(conn, peer)
\* is done, whatever the other task does.
ServeWaitForOne ==
    /\ spc = "wait"
    /\ relay.toConn = "done"
    /\ conn' = [conn EXCEPT ![1].closed = TRUE]
    /\ peerConn' = [peerConn EXCEPT ![1].closed = TRUE]
    /\ spc' = "returned"
    /\ UNCHANGED parseVars
    /\ UNCHANGED <<server, req, dials, relay>>
    /\ UNCHANGED <<mainVars, healthVars>>

\* serve: wg.Wait returns when both tasks are done; conn and peer are closed.
ServeWait ==
    /\ spc = "wait"
    /\ relay.toConn = "done" /\ relay.toPeer = "done"
    /\ conn' = [conn EXCEPT ![1].closed = TRUE]
    /\ peerConn' = [peerConn EXCEPT ![1].closed = TRUE]
    /\ spc' = "returned"
    /\ UNCHANGED parseVars
    /\ UNCHANGED <<server, req, dials, relay>>
    /\ UNCHANGED <<mainVars, healthVars>>

\* The deferred conn.Close of the connection's task, once serve (or
\* ServeConn) has returned.
ConnClose ==
    /\ spc = "returned"
    /\ conn' = [conn EXCEPT ![1].closed = TRUE]
    /\ spc' = "closed"
    /\ UNCHANGED parseVars
    /\ UNCHANGED <<server, req, peerConn, dials, relay>>
    /\ UNCHANGED <<mainVars, healthVars>>

Socks5Succeeded == "socks5: succeeded"

\* server.ServeConn of the SOCKS5 server: the client is authenticated, and
\* only then is its request dialed and answered.
ServeConn ==
    /\ spc = "accepted" /\ server[1].kind = "socks5"
    /\ \E r \in Socks5Requests :
          /\ req' = PtrTo(r)
          /\ IF Socks5Authenticate(server[1].authMethods, r) = NoError
             THEN /\ dials' = Append(dials, r.Host)
                  /\ conn' = Written(conn, Socks5Succeeded)
             ELSE /\ dials' = dials
                  /\ conn' = conn
    /\ spc' = "returned"
    /\ UNCHANGED parseVars
    /\ UNCHANGED <<server, peerConn, relay>>
    /\ UNCHANGED <<mainVars, healthVars>>

Serving == spc \notin {"idle", "listening", "returned", "closed"}

\* The client closes its end of the connection.
ClientCloses ==
    /\ Serving
    /\ ~conn[1].eof
    /\ conn' = [conn EXCEPT ![1].eof = TRUE, ![1].pending = FALSE]
    /\ UNCHANGED parseVars
    /\ UNCHANGED <<server, req, peerConn, dials, spc, relay>>
    /\ UNCHANGED <<mainVars, healthVars>>

\* The dialed peer closes its end.
PeerCloses ==
    /\ Serving /\ peerConn # NilPtr
    /\ ~peerConn[1].eof
    /\ peerConn' = [peerConn EXCEPT ![1].eof = TRUE, ![1].pending = FALSE]
    /\ UNCHANGED parseVars
    /\ UNCHANGED <<server, req, conn, dials, spc, relay>>
    /\ UNCHANGED <<mainVars, healthVars>>

\* The client sends bytes through the tunnel it was given.
ClientSends ==
    /\ spc = "wait"
    /\ ~conn[1].eof /\ ~conn[1].pending
    /\ conn' = [conn EXCEPT ![1].pending = TRUE]
    /\ UNCHANGED parseVars
    /\ UNCHANGED <<server, req, peerConn, dials, spc, relay>>
    /\ UNCHANGED <<mainVars, healthVars>>

\* The peer sends bytes.
PeerSends ==
    /\ spc = "wait"
    /\ ~peerConn[1].eof /\ ~peerConn[1].pending
    /\ peerConn' = [peerConn EXCEPT ![1].pending = TRUE]
    /\ UNCHANGED parseVars
    /\ UNCHANGED <<server, req, conn, dials, spc, relay>>
    /\ UNCHANGED <<mainVars, healthVars>>

NextProxy ==
    \/ ParseRoutines
    \/ SpawnHTTP
    \/ SpawnSocks5
    \/ Accept
    \/ ReadRequest
    \/ ServeAuthenticate
    \/ ServeMethod
    \/ HandleConnDial
    \/ HandleConnWrite
    \/ HandleDial
    \/ HandleWrite
    \/ CopyPeerToConn
    \/ CopyConnToPeer
    \/ ServeWait
    \/ ConnClose
    \/ ServeConn
    \/ ClientCloses
    \/ PeerCloses
    \/ ClientSends
    \/ PeerSends

SpecProxy == InitProxy /\ [][NextProxy]_vars

(***************************************************************************)
(* The proxy with its tasks scheduled.  The Go scheduler runs every task   *)
(* that is not blocked, so each step of serve, of the two relay tasks and  *)
(* of the connection's task is taken if it stays enabled.  Nothing makes   *)
(* the client or the peer send or close.                                   *)
(***************************************************************************)
FairProxy ==
    /\ WF_vars(ReadRequest)
    /\ WF_vars(ServeAuthenticate)
    /\ WF_vars(ServeMethod)
    /\ WF_vars(HandleConnDial)
    /\ WF_vars(HandleConnWrite)
    /\ WF_vars(HandleDial)
    /\ WF_vars(HandleWrite)
    /\ WF_vars(CopyPeerToConn)
    /\ WF_vars(CopyConnToPeer)
    /\ WF_vars(ServeWait)
    /\ WF_vars(ConnClose)
    /\ WF_vars(ServeConn)

SpecProxyFair == InitProxy /\ [][NextProxy]_vars /\ FairProxy

(***************************************************************************)
(* main: the start of the process, its sandbox stages, the daemon child,   *)
(* the listener tasks of the routines and the prober.  The signal, the     *)
(* failures of the operating system and the clients of the listeners are   *)
(* the environment.                                                        *)
(***************************************************************************)

\* const daemonProcess
daemonProcess == <<"daemon-process">>

\* The flags before parser.Parse: the defaults of argparse.
NewFlags ==
    [config |-> <<>>, silent |-> FALSE, daemon |-> FALSE, info |-> <<>>,
     printVerison |-> FALSE, configTest |-> FALSE]

ErrUnknownArguments == "unknown arguments"
ErrNotEnoughArguments == "not enough arguments"

\* The flag an argument names.
FlagOf(a) ==
    CASE a = <<"-s">> -> "silent"
      [] a = <<"-d">> -> "daemon"
      [] a = <<"-v">> -> "printVerison"
      [] a = <<"-n">> -> "configTest"
      [] OTHER -> ""

RECURSIVE parserParse(_, _)
\* parser.Parse(args) for the arguments after the program name: -c and -i
\* take the next argument as their value, -s, -d, -v and -n are flags, and
\* anything else is an error.
parserParse(a, f) ==
    IF a = <<>> THEN [err |-> NoError, flags |-> f]
    ELSE IF Head(a) \in {<<"-c">>, <<"-i">>}
         THEN IF Len(a) < 2 THEN [err |-> ErrNotEnoughArguments, flags |-> f]
              ELSE parserParse(SubSeq(a, 3, Len(a)),
                               IF Head(a) = <<"-c">> THEN [f EXCEPT !.config = a[2]]
                               ELSE [f EXCEPT !.info = a[2]])
    ELSE IF FlagOf(Head(a)) # ""
         THEN parserParse(Tail(a), [f EXCEPT ![FlagOf(Head(a))] = TRUE])
    ELSE [err |-> ErrUnknownArguments, flags |-> f]

\* The [Socks5] and [http] sections of the configuration files.
Socks5Section == [bindaddress |-> <<"127.0.0.1", Colon, "25344">>]
HTTPSection ==
    [bindaddress |-> <<"127.0.0.1", Colon, "25345">>, username |-> <<"user">>,
     password |-> <<"pass">>]

\* The files there are: one with a tunnel and two routines, one with a
\* routine whose BindAddress has no port, and one without [Interface].
ConfigFiles ==
    (<<"wg.conf">> :> (FileWith(<<BaseSection>>, <<BasePeer>>)
                          @@ [socks5 |-> <<Socks5Section>>, http |-> <<HTTPSection>>]))
    @@ (<<"noport.conf">> :> (FileWith(<<BaseSection>>, <<BasePeer>>)
                          @@ [http |-> <<[bindaddress |-> <<"localhost">>]>>]))
    @@ (<<"bad.conf">> :> FileWith(<<>>, <<BasePeer>>))

ErrNoSuchFile == "no such file or directory"

\* Parse: ParseInterface, ParsePeers and the two parseRoutinesConfig.
Parse(file, environ) ==
    Once(ParseResult(file, environ),
         LAMBDA d :
             IF d.err # NoError
             THEN [err |-> d.err, device |-> NewDeviceConfig, routines |-> <<>>]
             ELSE Once(parseRoutinesConfig(file, environ),
                       LAMBDA r :
                           IF r.err # NoError
                           THEN [err |-> r.err, device |-> NewDeviceConfig,
                                 routines |-> <<>>]
                           ELSE [err |-> NoError, device |-> d.conf[1],
                                 routines |-> r.routines]))

\* Parse of each file there is, in the empty environment of the process.
ParsedFiles == [path \in DOMAIN ConfigFiles |-> Parse(ConfigFiles[path], <<>>)]

\* ParseConfig(path): ini.LoadSources of the file, then Parse.
ParseConfig(path) ==
    IF path \notin DOMAIN ConfigFiles
    THEN [err |-> ErrNoSuchFile, file |-> <<>>, device |-> NewDeviceConfig,
          routines |-> <<>>]
    ELSE [file |-> ConfigFiles[path]] @@ ParsedFiles[path]

\* extractPort(addr) panics when addr has no port.
extractPortPanics(addr) == ~ContainsColon(addr)

\* lockNetwork panics when extractPort does, for the info address or for
\* the BindAddress of a routine.
lockNetworkPanics(sections, infoAddr) ==
    \/ infoAddr # <<>> /\ extractPortPanics(infoAddr)
    \/ \E i \in 1..Len(sections) : extractPortPanics(sections[i].BindAddress)

\* The arguments of a command line: with or without the sentinel, a
\* configuration path, the flags and an info address.
ArgLists ==
    {s \o c \o d \o n \o i :
        s \in {<<>>, <<daemonProcess>>},
        c \in {<<>>, <<<<"-c">>, <<"wg.conf">>>>, <<<<"-c">>, <<"bad.conf">>>>,
               <<<<"-c">>, <<"none.conf">>>>},
        d \in {<<>>, <<<<"-d">>>>},
        n \in {<<>>, <<<<"-n">>>>},
        i \in {<<>>, <<<<"-i">>, <<"127.0.0.1", Colon, "9080">>>>}}
    \cup {<<<<"-v">>>>, <<<<"-c">>>>, <<<<"-x">>>>, <<<<"-s">>, <<"-c">>, <<"wg.conf">>>>,
          <<<<"-c">>, <<"noport.conf">>>>, <<<<"-c">>, <<"noport.conf">>, <<"-n">>>>,
          <<<<"-c">>, <<"wg.conf">>, <<"-i">>, <<"localhost">>>>,
          <<<<"-v">>, <<"-n">>, <<"-d">>>>}

\* At most this many commands are started, and a listener accepts at most
\* this many connections.
MaxExecs == 2
MaxAccepts == 1

\* What no step of main changes.
notMain ==
    <<env, pc, reparsed, server, req, conn, peerConn, dials, spc, relay,
      clock, PingRecord, PingRecordLock, hpc, replies, resp>>

\* What the steps of main before ParseConfig and after StartWireguard leave
\* alone.
confVars == <<cfg, device, err, routines, request, tun>>

InitMain ==
    /\ args \in ArgLists
    /\ mpc = "boot"
    /\ flags = NilPtr
    /\ effects = <<>>
    /\ exit = "running"
    /\ execs = <<>>
    /\ ctx = "live"
    /\ tasks = <<>>
    /\ prober = [pc |-> "off", late |-> FALSE]
    /\ tun = NilPtr
    /\ cfg = <<>>
    /\ env = <<>>
    /\ device = NewDeviceConfig
    /\ err = NoError
    /\ pc = "start"
    /\ request = <<>>
    /\ reparsed = <<>>
    /\ routines = <<>>
    /\ server = NilPtr
    /\ req = NilPtr
    /\ conn = NilPtr
    /\ peerConn = NilPtr
    /\ dials = <<>>
    /\ spc = "idle"
    /\ relay = <<>>
    /\ HealthIdle

\* isDaemonProcess := len(os.Args) > 1 && os.Args[1] == daemonProcess
isDaemonProcess == args # <<>> /\ args[1] = daemonProcess

\* log.Fatal, a panic, or a return of main: the process ends.
Ends(how) == exit' = how /\ mpc' = "exit"

\* lock(stage): the capabilities are reduced, or the reduction fails and
\* panicIfError (pledgeOrPanic, unveilOrPanic) ends the process.
lock(stage, next) ==
    \/ /\ effects' = Append(effects, stage)
       /\ mpc' = next
       /\ exit' = exit
    \/ /\ Ends("fatal")
       /\ effects' = effects

\* The signal task: <-s, then cancel().
Signal ==
    /\ exit = "running" /\ ctx = "live"
    /\ ctx' = "cancelled"
    /\ UNCHANGED <<args, mpc, flags, effects, exit, execs, tasks, prober>>
    /\ UNCHANGED confVars
    /\ UNCHANGED notMain

\* main: lock("boot").
LockBoot ==
    /\ exit = "running" /\ mpc = "boot"
    /\ lock("boot", "boot-daemon")
    /\ UNCHANGED <<args, flags, execs, ctx, tasks, prober>>
    /\ UNCHANGED confVars
    /\ UNCHANGED notMain

\* main: the daemon child applies boot-daemon and drops the sentinel from
\* the arguments; then parser.Parse, the version and the configuration path.
ParseFlags ==
    /\ exit = "running" /\ mpc = "boot-daemon"
    /\ \E p \in {parserParse(IF isDaemonProcess THEN Tail(args) ELSE args, NewFlags)},
          config_exist \in BOOLEAN :
          /\ effects' = IF isDaemonProcess THEN Append(effects, "boot-daemon")
                        ELSE effects
          /\ flags' = PtrTo(IF p.flags.config = <<>> /\ config_exist
                            THEN [p.flags EXCEPT !.config = <<"wg.conf">>]
                            ELSE p.flags)
          /\ IF \/ p.err # NoError
                \/ p.flags.printVerison
                \/ p.flags.config = <<>> /\ ~config_exist
             THEN Ends("returned")
             ELSE mpc' = "read-config" /\ exit' = exit
    /\ UNCHANGED <<args, execs, ctx, tasks, prober>>
    /\ UNCHANGED confVars
    /\ UNCHANGED notMain


\* main, had it applied read-config in every process but the daemon child.
LockReadConfigUnlessChild ==
    /\ exit = "running" /\ mpc = "read-config"
    /\ IF ~isDaemonProcess THEN lock("read-config", "ParseConfig")
       ELSE mpc' = "ParseConfig" /\ UNCHANGED <<effects, exit>>
    /\ UNCHANGED <<args, flags, execs, ctx, tasks, prober>>
    /\ UNCHANGED confVars
    /\ UNCHANGED notMain

\* main, had it applied read-config whatever *daemon.
LockReadConfigAlways ==
    /\ exit = "running" /\ mpc = "read-config"
    /\ lock("read-config", "ParseConfig")
    /\ UNCHANGED <<args, flags, execs, ctx, tasks, prober>>
    /\ UNCHANGED confVars
    /\ UNCHANGED notMain

\* main: if !*daemon { lock("read-config") }
LockReadConfig ==
    /\ exit = "running" /\ mpc = "read-config"
    /\ IF ~flags[1].daemon THEN lock("read-config", "ParseConfig")
       ELSE mpc' = "ParseConfig" /\ UNCHANGED <<effects, exit>>
    /\ UNCHANGED <<args, flags, execs, ctx, tasks, prober>>
    /\ UNCHANGED confVars
    /\ UNCHANGED notMain

\* main, had it gone on after ParseConfig in configtest mode.
MainParseConfigThenOn ==
    /\ exit = "running" /\ mpc = "ParseConfig"
    /\ \E r \in {ParseConfig(flags[1].config)} :
          /\ cfg' = r.file
          /\ device' = r.device
          /\ routines' = r.routines
          /\ err' = r.err
          /\ IF r.err # NoError
             THEN Ends("fatal") /\ effects' = effects
             ELSE /\ mpc' = "lockNetwork" /\ exit' = exit
                  /\ effects' = Append(effects, "ParseConfig")
    /\ UNCHANGED <<args, flags, execs, ctx, tasks, prober, request, tun>>
    /\ UNCHANGED notMain

\* main: conf, err := ParseConfig(*config); log.Fatal(err) on an error;
\* in configtest mode "Config OK" is printed and main returns.
MainParseConfig ==
    /\ exit = "running" /\ mpc = "ParseConfig"
    /\ \E r \in {ParseConfig(flags[1].config)} :
          /\ cfg' = r.file
          /\ device' = r.device
          /\ routines' = r.routines
          /\ err' = r.err
          /\ IF r.err # NoError
             THEN Ends("fatal") /\ effects' = effects
             ELSE IF flags[1].configTest
             THEN Ends("returned") /\ effects' = effects \o <<"ParseConfig", "Config OK">>
             ELSE /\ mpc' = "lockNetwork" /\ exit' = exit
                  /\ effects' = Append(effects, "ParseConfig")
    /\ UNCHANGED <<args, flags, execs, ctx, tasks, prober, request, tun>>
    /\ UNCHANGED notMain

\* main: lockNetwork(conf.Routines, info): extractPort panics, or the rules
\* are installed, or RestrictNet fails and panicIfError ends the process.
LockNetwork ==
    /\ exit = "running" /\ mpc = "lockNetwork"
    /\ IF lockNetworkPanics(routines, flags[1].info)
       THEN Ends("panic") /\ effects' = effects
       ELSE \/ /\ effects' = Append(effects, "lockNetwork")
               /\ mpc' = "daemon"
               /\ exit' = exit
            \/ /\ Ends("fatal")
               /\ effects' = effects
    /\ UNCHANGED <<args, flags, execs, ctx, tasks, prober>>
    /\ UNCHANGED confVars
    /\ UNCHANGED notMain

\* main, had the daemon child not cleared *daemon.
DaemonizeAgain ==
    /\ exit = "running" /\ mpc = "daemon"
    /\ IF ~flags[1].daemon
       THEN /\ mpc' = "ready"
            /\ UNCHANGED <<flags, effects, exit, execs>>
       ELSE /\ Len(execs) < MaxExecs
            /\ \E started \in BOOLEAN :
                  execs' = Append(execs, [argv |-> <<daemonProcess>> \o args,
                                          started |-> started,
                                          running |-> FALSE])
            /\ effects' = Append(effects, "exec")
            /\ Ends("returned")
            /\ flags' = flags
    /\ UNCHANGED <<args, ctx, tasks, prober>>
    /\ UNCHANGED confVars
    /\ UNCHANGED notMain

\* main: the daemon child clears *daemon; with *daemon the process starts
\* itself again, the sentinel in front of its arguments, and returns.
\* cmd.Start may fail: the error is printed.
Daemonize ==
    /\ exit = "running" /\ mpc = "daemon"
    /\ IF isDaemonProcess \/ ~flags[1].daemon
       THEN /\ flags' = PtrTo([flags[1] EXCEPT !.daemon = FALSE])
            /\ mpc' = "ready"
            /\ UNCHANGED <<effects, exit, execs>>
       ELSE /\ Len(execs) < MaxExecs
            /\ \E started \in BOOLEAN :
                  execs' = Append(execs, [argv |-> <<daemonProcess>> \o args,
                                          started |-> started,
                                          running |-> FALSE])
            /\ effects' = Append(effects, "exec")
            /\ Ends("returned")
            /\ flags' = flags
    /\ UNCHANGED <<args, ctx, tasks, prober>>
    /\ UNCHANGED confVars
    /\ UNCHANGED notMain

\* main: lock("ready").
LockReady ==
    /\ exit = "running" /\ mpc = "ready"
    /\ lock("ready", "StartWireguard")
    /\ UNCHANGED <<args, flags, execs, ctx, tasks, prober>>
    /\ UNCHANGED confVars
    /\ UNCHANGED notMain

\* A VirtualTun with no field set: nil pointers, a nil listener and a nil
\* map.
ZeroVirtualTun ==
    [Tnet |-> NilPtr, Dev |-> NilPtr, Logger |-> NilPtr, Uapi |-> NilPtr,
     Conf |-> NilPtr, PingRecord |-> NilPtr, PingRecordLock |-> NilPtr]

\* make(map[string]uint64)
EmptyMap == PtrTo(<<>>)

\* The VirtualTun StartWireguard returns: the composite literal sets Tnet,
\* Dev, Conf and PingRecord (and a SystemDNS, which the struct of
\* routine.go has not), and leaves every other field as it is.
VirtualTunOf(conf) ==
    [ZeroVirtualTun EXCEPT !.Tnet = PtrTo("tnet"), !.Dev = PtrTo("dev"),
                           !.Conf = PtrTo(conf), !.PingRecord = EmptyMap]

ErrCreateNetTUN == "CreateNetTUN failed"
ErrIpcSet == "IpcSet failed"
ErrUp == "Up failed"

\* The steps of StartWireguard that can fail.
BootstrapErrors == {ErrCreateNetTUN, ErrIpcSet, ErrUp}

\* main: tun, err := StartWireguard(conf.Device, logLevel); log.Fatal(err)
\* when the device cannot be created, configured or brought up.  The error
\* is kept in err.
MainStartWireguard ==
    /\ exit = "running" /\ mpc = "StartWireguard"
    /\ request' = CreateIPCRequestWireguard(device)
    /\ \/ /\ effects' = Append(effects, "StartWireguard")
          /\ tun' = PtrTo(VirtualTunOf(device))
          /\ err' = NoError
          /\ mpc' = "SpawnRoutine"
          /\ exit' = exit
       \/ /\ Ends("fatal")
          /\ \E e \in BootstrapErrors : err' = e
          /\ tun' = NilPtr
          /\ effects' = effects
    /\ UNCHANGED <<args, flags, execs, ctx, tasks, prober>>
    /\ UNCHANGED <<cfg, device, routines>>
    /\ UNCHANGED notMain

ErrBind == "bind: address already in use"
ErrAccept == "accept: too many open files"
ErrCanceled == "context canceled"

\* A task started for a routine, or for the health server, before net.Listen.
NewTask(kind) ==
    [kind |-> kind, pc |-> "Listen", listener |-> "none", errCh |-> <<>>,
     accept |-> "off", closer |-> "off", accepted |-> 0, ret |-> NilPtr]

\* main: go spawner.SpawnRoutine(tun) for every routine; the value a task
\* returns is dropped.
SpawnRoutines ==
    /\ exit = "running" /\ mpc = "SpawnRoutine"
    /\ tasks' = [i \in 1..Len(routines) |-> NewTask(routines[i].kind)]
    /\ effects' = Append(effects, "SpawnRoutine")
    /\ mpc' = "StartPingIPs"
    /\ UNCHANGED <<args, flags, exit, execs, ctx, prober>>
    /\ UNCHANGED confVars
    /\ UNCHANGED notMain

\* main: tun.StartPingIPs() starts the prober task, which calls pingIPs at
\* once; then the health server is started when an info address is given.
MainStartPingIPs ==
    /\ exit = "running" /\ mpc = "StartPingIPs"
    /\ prober' = [pc |-> "pingIPs", late |-> FALSE]
    /\ tasks' = IF flags[1].info # <<>> THEN Append(tasks, NewTask("info"))
                ELSE tasks
    /\ effects' = Append(effects, "StartPingIPs")
    /\ mpc' = "Done"
    /\ UNCHANGED <<args, flags, exit, execs, ctx>>
    /\ UNCHANGED confVars
    /\ UNCHANGED notMain

\* main: <-ctx.Done(), and main returns.
MainWait ==
    /\ exit = "running" /\ mpc = "Done"
    /\ ctx = "cancelled"
    /\ Ends("returned")
    /\ UNCHANGED <<args, flags, effects, execs, ctx, tasks, prober>>
    /\ UNCHANGED confVars
    /\ UNCHANGED notMain

\* What the steps of the tasks leave alone.
notTasks == <<args, mpc, flags, effects, execs, ctx, prober>>

\* net.Listen of a task.  When it fails, ListenAndServe and the SOCKS5
\* SpawnRoutine return the error, and the task of the health server panics.
Listen(i) ==
    /\ exit = "running"
    /\ i \in 1..Len(tasks)
    /\ tasks[i].pc = "Listen"
    /\ \/ /\ tasks' = [tasks EXCEPT ![i] =
                 [@ EXCEPT !.listener = "open",
                           !.pc = IF tasks[i].kind = "http" THEN "select"
                                  ELSE "Accept",
                           !.accept = IF tasks[i].kind = "http" THEN "Accept"
                                      ELSE "off",
                           !.closer = IF tasks[i].kind = "socks5" THEN "wait"
                                      ELSE "off"]]
          /\ exit' = exit
       \/ /\ tasks[i].kind # "info"
          /\ tasks' = [tasks EXCEPT ![i] =
                 [@ EXCEPT !.pc = "returned", !.ret = PtrTo(ErrBind)]]
          /\ exit' = exit
       \/ /\ tasks[i].kind = "info"
          /\ exit' = "panic"
          /\ tasks' = tasks
    /\ UNCHANGED notTasks
    /\ UNCHANGED confVars
    /\ UNCHANGED notMain

\* The task of i that calls listener.Accept is in that call.
InAccept(i) ==
    IF tasks[i].kind = "http" THEN tasks[i].accept = "Accept"
    ELSE tasks[i].pc = "Accept"

\* listener.Accept returns a connection, and a task is started for it.
AcceptConn(i) ==
    /\ exit = "running"
    /\ i \in 1..Len(tasks)
    /\ InAccept(i)
    /\ tasks[i].listener = "open"
    /\ tasks[i].accepted < MaxAccepts
    /\ tasks' = [tasks EXCEPT ![i].accepted = @ + 1]
    /\ UNCHANGED exit
    /\ UNCHANGED notTasks
    /\ UNCHANGED confVars
    /\ UNCHANGED notMain

\* listener.Accept returns the error of a closed listener.  The accept loop
\* of ListenAndServe sends nil on errCh and returns; the SOCKS5 SpawnRoutine
\* returns nil.
AcceptClosed(i) ==
    /\ exit = "running"
    /\ i \in 1..Len(tasks)
    /\ InAccept(i)
    /\ tasks[i].kind # "info"
    /\ tasks[i].listener = "closed"
    /\ tasks' = [tasks EXCEPT ![i] =
           IF tasks[i].kind = "http"
           THEN [@ EXCEPT !.errCh = <<NoError>>, !.accept = "returned"]
           ELSE [@ EXCEPT !.pc = "returned", !.ret = PtrTo(NoError)]]
    /\ UNCHANGED exit
    /\ UNCHANGED notTasks
    /\ UNCHANGED confVars
    /\ UNCHANGED notMain

\* listener.Accept returns another error while the listener is open.  The
\* accept loop of ListenAndServe sends it on errCh and returns; the SOCKS5
\* SpawnRoutine returns it, its listener still open.
AcceptError(i) ==
    /\ exit = "running"
    /\ i \in 1..Len(tasks)
    /\ InAccept(i)
    /\ tasks[i].kind # "info"
    /\ tasks[i].listener = "open"
    /\ tasks' = [tasks EXCEPT ![i] =
           IF tasks[i].kind = "http"
           THEN [@ EXCEPT !.errCh = <<ErrAccept>>, !.accept = "returned"]
           ELSE [@ EXCEPT !.pc = "returned", !.ret = PtrTo(ErrAccept)]]
    /\ UNCHANGED exit
    /\ UNCHANGED notTasks
    /\ UNCHANGED confVars
    /\ UNCHANGED notMain

\* ListenAndServe's select, had the ctx.Done branch gone on to <-errCh
\* without closing the listener.
ListenAndServeSelectWithoutClose(i) ==
    /\ exit = "running"
    /\ i \in 1..Len(tasks)
    /\ tasks[i].kind = "http" /\ tasks[i].pc = "select"
    /\ \/ /\ tasks[i].errCh # <<>>
          /\ tasks' = [tasks EXCEPT ![i] =
                 [@ EXCEPT !.listener = "closed", !.errCh = <<>>,
                           !.ret = PtrTo(tasks[i].errCh[1]), !.pc = "returned"]]
       \/ /\ ctx = "cancelled"
          /\ tasks' = [tasks EXCEPT ![i] = [@ EXCEPT !.pc = "drain"]]
    /\ UNCHANGED exit
    /\ UNCHANGED notTasks
    /\ UNCHANGED confVars
    /\ UNCHANGED notMain

\* ListenAndServe's select: an error of the accept loop, or ctx.Done; the
\* listener is closed in both cases.
ListenAndServeSelect(i) ==
    /\ exit = "running"
    /\ i \in 1..Len(tasks)
    /\ tasks[i].kind = "http" /\ tasks[i].pc = "select"
    /\ \/ /\ tasks[i].errCh # <<>>
          /\ tasks' = [tasks EXCEPT ![i] =
                 [@ EXCEPT !.listener = "closed", !.errCh = <<>>,
                           !.ret = PtrTo(tasks[i].errCh[1]), !.pc = "returned"]]
       \/ /\ ctx = "cancelled"
          /\ tasks' = [tasks EXCEPT ![i] =
                 [@ EXCEPT !.listener = "closed", !.pc = "drain"]]
    /\ UNCHANGED exit
    /\ UNCHANGED notTasks
    /\ UNCHANGED confVars
    /\ UNCHANGED notMain

\* ListenAndServe after ctx.Done: <-errCh, return ctx.Err().
ListenAndServeDrain(i) ==
    /\ exit = "running"
    /\ i \in 1..Len(tasks)
    /\ tasks[i].kind = "http" /\ tasks[i].pc = "drain"
    /\ tasks[i].errCh # <<>>
    /\ tasks' = [tasks EXCEPT ![i] =
           [@ EXCEPT !.errCh = <<>>, !.ret = PtrTo(ErrCanceled), !.pc = "returned"]]
    /\ UNCHANGED exit
    /\ UNCHANGED notTasks
    /\ UNCHANGED confVars
    /\ UNCHANGED notMain

\* The closer task, had it returned on ctx.Done without closing the listener.
CloseOnDoneWithoutClose(i) ==
    /\ exit = "running"
    /\ i \in 1..Len(tasks)
    /\ tasks[i].kind = "socks5" /\ tasks[i].closer = "wait"
    /\ ctx = "cancelled"
    /\ tasks' = [tasks EXCEPT ![i] = [@ EXCEPT !.closer = "done"]]
    /\ UNCHANGED exit
    /\ UNCHANGED notTasks
    /\ UNCHANGED confVars
    /\ UNCHANGED notMain

\* The closer task of the SOCKS5 SpawnRoutine: <-ctx.Done(), then
\* listener.Close().
CloseOnDone(i) ==
    /\ exit = "running"
    /\ i \in 1..Len(tasks)
    /\ tasks[i].kind = "socks5" /\ tasks[i].closer = "wait"
    /\ ctx = "cancelled"
    /\ tasks' = [tasks EXCEPT ![i] = [@ EXCEPT !.listener = "closed", !.closer = "done"]]
    /\ UNCHANGED exit
    /\ UNCHANGED notTasks
    /\ UNCHANGED confVars
    /\ UNCHANGED notMain

\* The prober task of StartPingIPs: pingIPs returns and the task sleeps for
\* CheckAliveInterval seconds.
ProberSleep ==
    /\ exit = "running"
    /\ prober.pc = "pingIPs"
    /\ prober' = [prober EXCEPT !.pc = "Sleep"]
    /\ UNCHANGED <<args, mpc, flags, effects, exit, execs, ctx, tasks>>
    /\ UNCHANGED confVars
    /\ UNCHANGED notMain

\* The prober task of StartPingIPs: time.Sleep returns and pingIPs is called
\* again, whatever the context; late records a call made with the context
\* cancelled.
ProberPing ==
    /\ exit = "running"
    /\ prober.pc = "Sleep"
    /\ prober' = [pc |-> "pingIPs", late |-> prober.late \/ ctx = "cancelled"]
    /\ UNCHANGED <<args, mpc, flags, effects, exit, execs, ctx, tasks>>
    /\ UNCHANGED confVars
    /\ UNCHANGED notMain

\* The command cmd.Start started runs: a new process, whose os.Args are the
\* command's.
ChildStarts ==
    /\ exit = "returned"
    /\ \E k \in 1..Len(execs) :
          /\ execs[k].started /\ ~execs[k].running
          /\ execs' = [execs EXCEPT ![k].running = TRUE]
          /\ args' = execs[k].argv
    /\ mpc' = "boot"
    /\ flags' = NilPtr
    /\ effects' = <<>>
    /\ exit' = "running"
    /\ ctx' = "live"
    /\ tasks' = <<>>
    /\ prober' = [pc |-> "off", late |-> FALSE]
    /\ tun' = NilPtr
    /\ cfg' = <<>>
    /\ device' = NewDeviceConfig
    /\ err' = NoError
    /\ routines' = <<>>
    /\ request' = <<>>
    /\ UNCHANGED notMain

NextMain ==
    \/ Signal
    \/ LockBoot
    \/ ParseFlags
    \/ LockReadConfig
    \/ MainParseConfig
    \/ LockNetwork
    \/ Daemonize
    \/ LockReady
    \/ MainStartWireguard
    \/ SpawnRoutines
    \/ MainStartPingIPs
    \/ MainWait
    \/ \E i \in 1..Len(tasks) : Listen(i)
    \/ \E i \in 1..Len(tasks) : AcceptConn(i)
    \/ \E i \in 1..Len(tasks) : AcceptClosed(i)
    \/ \E i \in 1..Len(tasks) : AcceptError(i)
    \/ \E i \in 1..Len(tasks) : ListenAndServeSelect(i)
    \/ \E i \in 1..Len(tasks) : ListenAndServeDrain(i)
    \/ \E i \in 1..Len(tasks) : CloseOnDone(i)
    \/ ProberSleep
    \/ ProberPing
    \/ ChildStarts

SpecMain == InitMain /\ [][NextMain]_vars

\* A configuration has at most two routines here, and the health server is
\* one more task.
TaskIds == 1..3

(***************************************************************************)
(* The process with its tasks scheduled.  The Go scheduler runs every task *)
(* that is not blocked: each step of main up to its wait and each step of  *)
(* a listener task and of the prober is taken when it stays enabled.       *)
(* Nothing is assumed of the signal, of the accept errors of an open       *)
(* listener, of the clients that connect, of the child process, or of the  *)
(* moment main returns after ctx.Done.                                     *)
(***************************************************************************)
FairMain ==
    /\ WF_vars(LockBoot)
    /\ WF_vars(ParseFlags)
    /\ WF_vars(LockReadConfig)
    /\ WF_vars(MainParseConfig)
    /\ WF_vars(LockNetwork)
    /\ WF_vars(Daemonize)
    /\ WF_vars(LockReady)
    /\ WF_vars(MainStartWireguard)
    /\ WF_vars(SpawnRoutines)
    /\ WF_vars(MainStartPingIPs)
    /\ \A i \in TaskIds : WF_vars(Listen(i))
    /\ \A i \in TaskIds : WF_vars(AcceptClosed(i))
    /\ \A i \in TaskIds : WF_vars(ListenAndServeSelect(i))
    /\ \A i \in TaskIds : WF_vars(ListenAndServeDrain(i))
    /\ \A i \in TaskIds : WF_vars(CloseOnDone(i))
    /\ WF_vars(ProberSleep)
    /\ WF_vars(ProberPing)

SpecMainFair == InitMain /\ [][NextMain]_vars /\ FairMain

(***************************************************************************)
(* The health endpoint and the prober's records.  VirtualTun.ServeHTTP     *)
(* answers /readyz from PingRecord and /metrics from the device; the reply *)
(* tasks of pingIPs write PingRecord.  Time is counted in ticks; the       *)
(* peers that answer the pings, the clients of the endpoint and the        *)
(* device's answer to IpcGet are the environment.                          *)
(***************************************************************************)

\* The ticks of a second, the clock when the model starts (the process runs
\* long after 1970), and the clock at which it stops.
TicksPerSecond == 2
Epoch == 20
MaxClock == 29

\* At most this many lines in the answer of IpcGet.
MaxLines == 2

Newline == "\n"
Equals == "="
Redacted == "REDACTED"

StatusOK == 200
StatusNotFound == 404
StatusInternalServerError == 500
StatusServiceUnavailable == 503

\* time.Now().Unix()
Unix(now) == now \div TicksPerSecond

\* time.Since, had it counted every tick twice.
SinceDoubled(now, record) == 2 * (now - record * TicksPerSecond)

\* time.Since(time.Unix(record, 0)), in ticks.
Since(now, record) == now - record * TicksPerSecond

\* The status of /readyz without the two seconds of slack.
readyzStatusNoSlack(records, now, interval) ==
    IF \E t \in DOMAIN records :
           Since(now, records[t]) > interval * TicksPerSecond
    THEN StatusServiceUnavailable
    ELSE StatusOK

\* The status of /readyz: 503 when a record is older than
\* CheckAliveInterval + 2 seconds, else 200.
readyzStatus(records, now, interval) ==
    IF \E t \in DOMAIN records :
           Since(now, records[t]) > (interval + 2) * TicksPerSecond
    THEN StatusServiceUnavailable
    ELSE StatusOK

RECURSIVE SplitOn(_, _)
\* strings.Split(s, sep)
SplitOn(s, sep) ==
    IF \A i \in 1..Len(s) : s[i] # sep THEN <<s>>
    ELSE LET i == CHOOSE k \in 1..Len(s) :
                      s[k] = sep /\ \A j \in 1..(k - 1) : s[j] # sep
         IN  <<SubSeq(s, 1, i - 1)>> \o SplitOn(SubSeq(s, i + 1, Len(s)), sep)

\* strings.SplitN(s, sep, 2)
SplitN2On(s, sep) ==
    IF \E i \in 1..Len(s) : s[i] = sep
    THEN LET i == CHOOSE k \in 1..Len(s) :
                      s[k] = sep /\ \A j \in 1..(k - 1) : s[j] # sep
         IN  <<SubSeq(s, 1, i - 1), SubSeq(s, i + 1, Len(s))>>
    ELSE <<s>>

\* One line of /metrics, had only private_key been replaced.
metricsLinePrivateOnly(line) ==
    LET pair == SplitN2On(line, Equals)
    IN  IF Len(pair) # 2 THEN line
        ELSE pair[1] \o <<Equals>>
             \o (IF pair[1] = <<"private_key">> THEN <<Redacted>> ELSE pair[2])
             \o <<Newline>>

\* One line of /metrics: written as it is when it has no "=", else with
\* the value of private_key and preshared_key replaced, and a newline.
metricsLine(line) ==
    LET pair == SplitN2On(line, Equals)
    IN  IF Len(pair) # 2 THEN line
        ELSE pair[1] \o <<Equals>>
             \o (IF pair[1] = <<"private_key">> \/ pair[1] = <<"preshared_key">>
                 THEN <<Redacted>> ELSE pair[2])
             \o <<Newline>>

RECURSIVE metricsLines(_)
metricsLines(lines) ==
    IF lines = <<>> THEN <<>>
    ELSE metricsLine(Head(lines)) \o metricsLines(Tail(lines))

\* The body of /metrics for the text IpcGet returned.
metricsBody(get) == metricsLines(SplitOn(get, Newline))

RECURSIVE UAPIText(_)
\* The text IpcGet returns for the lines of a device: key=value lines.
UAPIText(lines) ==
    IF lines = <<>> THEN <<>>
    ELSE <<Head(lines)[1], Equals>> \o Head(lines)[2] \o <<Newline>>
         \o UAPIText(Tail(lines))

\* Lines of a device: keys, other lines, and values that are empty, hold
\* "=" or are the word REDACTED.
UAPILine ==
    {<<"private_key", <<"aa11">>>>, <<"preshared_key", <<"cc33">>>>,
     <<"preshared_key", <<>>>>, <<"private_key", <<"aa", Equals, "11">>>>,
     <<"public_key", <<"bb22">>>>, <<"listen_port", <<"51820">>>>,
     <<"i1", <<"<b 0x", Equals, Equals, ">">>>>,
     <<"private_key_x", <<Redacted>>>>}

\* The lines of a device: up to MaxLines of them.
UAPILines == UNION {[1..n -> UAPILine] : n \in 0..MaxLines}

\* The keys of PingRecord: addr.String() of the CheckAlive addresses.
Targets(conf) == {conf.CheckAlive[k].ip : k \in 1..Len(conf.CheckAlive)}

\* The CheckAlive lists and intervals of a device.
HealthDevices ==
    {[NewDeviceConfig EXCEPT !.CheckAlive = <<>>,
                             !.CheckAliveInterval = IntOf(CheckAliveIntervalDefault)]}
    \cup {[NewDeviceConfig EXCEPT !.CheckAlive = targets,
                                  !.CheckAliveInterval = IntOf(n)] :
             targets \in {<<AddrOf(Addr4)>>}, n \in {1, 2}}
    \cup {[NewDeviceConfig EXCEPT !.CheckAlive = <<AddrOf(Addr4), AddrOf(AddrDNS)>>,
                                  !.CheckAliveInterval = IntOf(1)]}

\* What no step of the health endpoint and of the prober changes.
notHealth ==
    <<cfg, env, device, err, pc, request, reparsed,
      routines, server, req, conn, peerConn, dials, spc, relay,
      args, mpc, flags, effects, execs, ctx, tasks, prober, tun>>

\* The state after StartWireguard built the VirtualTun, StartPingIPs set
\* every record to 0 and the health server began to listen.
InitHealth ==
    /\ device \in HealthDevices
    /\ clock = Epoch
    /\ PingRecord = [t \in Targets(device) |-> 0]
    /\ PingRecordLock = "free"
    /\ hpc = "idle"
    /\ replies = [t \in Targets(device) |-> [pc |-> "off", at |-> 0]]
    /\ resp = NilPtr
    /\ exit = "running"
    /\ args = <<>> /\ mpc = "idle" /\ flags = NilPtr /\ effects = <<>>
    /\ execs = <<>> /\ ctx = "live" /\ tasks = <<>>
    /\ prober = [pc |-> "off", late |-> FALSE]
    /\ tun = NilPtr
    /\ cfg = <<>> /\ env = <<>> /\ err = NoError /\ pc = "start"
    /\ request = <<>> /\ reparsed = <<>>
    /\ ProxyIdle

\* Time passes.
Tick ==
    /\ exit = "running"
    /\ clock < MaxClock
    /\ clock' = clock + 1
    /\ UNCHANGED <<PingRecord, PingRecordLock, hpc, replies, resp, exit>>
    /\ UNCHANGED notHealth

\* pingIPs: for every CheckAlive address the ping socket is dialed and the
\* ping written, or the dial fails; a reply task is started for each ping
\* written.
pingIPs ==
    /\ exit = "running"
    /\ \E dialed \in SUBSET {t \in DOMAIN replies : replies[t].pc = "off"} :
          /\ dialed # {}
          /\ replies' = [t \in DOMAIN replies |->
                            IF t \in dialed THEN [replies[t] EXCEPT !.pc = "Read"]
                            ELSE replies[t]]
    /\ UNCHANGED <<clock, PingRecord, PingRecordLock, hpc, resp, exit>>
    /\ UNCHANGED notHealth

\* The reply task of t: socket.Read returns a valid reply.
ReplyRead(t) ==
    /\ exit = "running"
    /\ replies[t].pc = "Read"
    /\ replies' = [replies EXCEPT ![t].pc = "Lock"]
    /\ UNCHANGED <<clock, PingRecord, PingRecordLock, hpc, resp, exit>>
    /\ UNCHANGED notHealth

\* The reply task of t: the read fails (the deadline passes) or the reply
\* is not valid; the task returns.
ReplyFails(t) ==
    /\ exit = "running"
    /\ replies[t].pc = "Read"
    /\ replies' = [replies EXCEPT ![t].pc = "off"]
    /\ UNCHANGED <<clock, PingRecord, PingRecordLock, hpc, resp, exit>>
    /\ UNCHANGED notHealth

\* The reply task of t: d.PingRecordLock.Lock()
ReplyLock(t) ==
    /\ exit = "running"
    /\ replies[t].pc = "Lock"
    /\ PingRecordLock = "free"
    /\ PingRecordLock' = t
    /\ replies' = [replies EXCEPT ![t].pc = "write"]
    /\ UNCHANGED <<clock, PingRecord, hpc, resp, exit>>
    /\ UNCHANGED notHealth

\* The reply task of t: d.PingRecord[addr.String()] = time.Now().Unix(),
\* then Unlock; at is the time of the reply.
ReplyWrite(t) ==
    /\ exit = "running"
    /\ replies[t].pc = "write"
    /\ PingRecord' = [PingRecord EXCEPT ![t] = Unix(clock)]
    /\ PingRecordLock' = "free"
    /\ replies' = [replies EXCEPT ![t] = [pc |-> "off", at |-> clock]]
    /\ UNCHANGED <<clock, hpc, resp, exit>>
    /\ UNCHANGED notHealth

\* A response of ServeHTTP: seen is the PingRecord the status was computed
\* from and get the text IpcGet returned.
Response(path, status, body, now, seen, get) ==
    [path |-> path, status |-> status, body |-> body, at |-> now,
     seen |-> seen, get |-> get]

\* ServeHTTP for /readyz: json.Marshal(d.PingRecord) begins; no lock is
\* taken.
ReadyzMarshal ==
    /\ exit = "running"
    /\ hpc = "idle"
    /\ hpc' = "Marshal"
    /\ resp' = NilPtr
    /\ UNCHANGED <<clock, PingRecord, PingRecordLock, replies, exit>>
    /\ UNCHANGED notHealth

\* ServeHTTP for /readyz: json.Marshal has read the map, and the range
\* over d.PingRecord begins.
ReadyzRange ==
    /\ exit = "running"
    /\ hpc = "Marshal"
    /\ hpc' = "range"
    /\ resp' = PtrTo(Response("/readyz", 0, PingRecord, clock, <<>>, <<>>))
    /\ UNCHANGED <<clock, PingRecord, PingRecordLock, replies, exit>>
    /\ UNCHANGED notHealth

\* ServeHTTP for /readyz: the range has read the records, and the status
\* and the body are written.
ReadyzWrite ==
    /\ exit = "running"
    /\ hpc = "range"
    /\ hpc' = "idle"
    /\ resp' = PtrTo(Response("/readyz",
                              readyzStatus(PingRecord, clock,
                                           Small(device.CheckAliveInterval)),
                              resp[1].body, clock, PingRecord, <<>>))
    /\ UNCHANGED <<clock, PingRecord, PingRecordLock, replies, exit>>
    /\ UNCHANGED notHealth

\* ServeHTTP reads PingRecord / a reply task writes it.
Reading == hpc \in {"Marshal", "range"}
Writing == \E t \in DOMAIN replies : replies[t].pc = "write"

\* A read of the map while it is written: the Go runtime may end the process
\* with "concurrent map read and map write".
ConcurrentMapAccess ==
    /\ exit = "running"
    /\ Reading /\ Writing
    /\ exit' = "fatal"
    /\ UNCHANGED <<clock, PingRecord, PingRecordLock, hpc, replies, resp>>
    /\ UNCHANGED notHealth

NextHealth ==
    \/ Tick
    \/ pingIPs
    \/ \E t \in DOMAIN replies : ReplyRead(t)
    \/ \E t \in DOMAIN replies : ReplyFails(t)
    \/ \E t \in DOMAIN replies : ReplyLock(t)
    \/ \E t \in DOMAIN replies : ReplyWrite(t)
    \/ ReadyzMarshal
    \/ ReadyzRange
    \/ ReadyzWrite
    \/ ConcurrentMapAccess

SpecHealth == InitHealth /\ [][NextHealth]_vars

\* ServeHTTP for /metrics: d.Dev.IpcGet() fails, or its text is written
\* line by line.
ServeMetrics ==
    /\ exit = "running"
    /\ hpc = "idle"
    /\ \/ resp' = PtrTo(Response("/metrics", StatusInternalServerError, <<>>,
                                 clock, <<>>, <<>>))
       \/ \E get \in {UAPIText(request)} :
             resp' = PtrTo(Response("/metrics", StatusOK, metricsBody(get),
                                    clock, <<>>, get))
    /\ UNCHANGED <<clock, PingRecord, PingRecordLock, hpc, replies, exit>>
    /\ UNCHANGED notHealth

\* ServeHTTP for any other path.
ServeNotFound ==
    /\ exit = "running"
    /\ hpc = "idle"
    /\ resp' = PtrTo(Response("/", StatusNotFound, <<>>, clock, <<>>, <<>>))
    /\ UNCHANGED <<clock, PingRecord, PingRecordLock, hpc, replies, exit>>
    /\ UNCHANGED notHealth

\* The device holds the lines IpcSet gave it.
InitMetrics ==
    /\ request \in UAPILines
    /\ device = NewDeviceConfig
    /\ clock = Epoch
    /\ PingRecord = <<>>
    /\ PingRecordLock = "free"
    /\ hpc = "idle"
    /\ replies = <<>>
    /\ resp = NilPtr
    /\ MainIdle
    /\ cfg = <<>> /\ env = <<>> /\ err = NoError /\ pc = "start"
    /\ reparsed = <<>>
    /\ ProxyIdle

NextMetrics ==
    \/ ServeMetrics
    \/ ServeNotFound

SpecMetrics == InitMetrics /\ [][NextMetrics]_vars

(***************************************************************************)
(* The prober: StartPingIPs, pingIPs and the reply tasks with their ping   *)
(* sockets and the replies they read.                                      *)
(***************************************************************************)
\* At most this many pings are written.
MaxProbes == 2

\* The echo request of the k-th ping: its sequence number and its 16 bytes
\* are drawn at random for every ping.
requestPing(k) == [Seq |-> k % 65536, Data |-> <<"data", k>>]

\* What socket.Read can give the reply task of a request: fewer bytes than
\* an ICMP header, or a message with the request's sequence number and
\* bytes or with others.
WireReplies(sent) ==
    {[short |-> TRUE, type |-> "EchoReply", Seq |-> 0, Data |-> <<>>]}
    \cup [short : {FALSE}, type : {"EchoReply"},
          Seq : {sent.Seq, (sent.Seq + 1) % 65536},
          Data : {sent.Data, <<"other">>}]
    \cup {[short |-> FALSE, type |-> "DestinationUnreachable",
           Seq |-> sent.Seq, Data |-> sent.Data]}

ErrMessageTooShort == "message too short"

\* icmp.ParseMessage(1, bytes): the type byte is read as an ICMPv4 type.
\* The echo reply of ICMPv4 has an Echo body; the type bytes of ICMPv6
\* (129 for the echo reply) are no ICMPv4 type with a body parser, and the
\* body is a RawBody that begins with the identifier and the sequence number.
ParseMessage(addr, wire) ==
    IF wire.short THEN [err |-> ErrMessageTooShort, Body |-> "none"]
    ELSE [err |-> NoError,
          Body |-> IF ~addr.is4 THEN "RawBody"
                   ELSE IF wire.type = "EchoReply" THEN "Echo"
                   ELSE "DstUnreach"]

\* The checks without the comparison of the sequence number.
replyAcceptedAnySeq(addr, sent, wire) ==
    LET replyPacket == ParseMessage(addr, wire)
    IN  /\ replyPacket.err = NoError
        /\ replyPacket.Body = (IF addr.is4 THEN "Echo" ELSE "RawBody")
        /\ wire.Data = sent.Data

\* The checks of the reply task on what it read: the task goes on to the
\* record, or it returns.
replyAccepted(addr, sent, wire) ==
    LET replyPacket == ParseMessage(addr, wire)
    IN  /\ replyPacket.err = NoError
        /\ replyPacket.Body = (IF addr.is4 THEN "Echo" ELSE "RawBody")
        /\ wire.Data = sent.Data
        /\ wire.Seq = sent.Seq

\* The CheckAlive lists of the prober: none, one IPv4 address, an IPv4 and
\* an IPv6 address.
PingDevices ==
    {[NewDeviceConfig EXCEPT !.CheckAlive = targets,
                             !.CheckAliveInterval = IntOf(1)] :
        targets \in {<<>>, <<AddrOf(Addr4)>>, <<AddrOf(Addr4), AddrOf(Addr6)>>}}

\* What no step of the prober changes.
notPing ==
    <<cfg, env, device, err, pc, request, reparsed,
      routines, server, req, conn, peerConn, dials, spc, relay,
      args, mpc, flags, effects, execs, ctx, tasks, tun, hpc, resp, exit>>

\* The state after StartWireguard built the VirtualTun: the PingRecord map
\* is empty.
InitPing ==
    /\ device \in PingDevices
    /\ clock = Epoch
    /\ PingRecord = <<>>
    /\ PingRecordLock = "free"
    /\ replies = <<>>
    /\ prober = [pc |-> "off", late |-> FALSE, next |-> 1, until |-> 0]
    /\ tun = NilPtr
    /\ hpc = "idle" /\ resp = NilPtr
    /\ exit = "running"
    /\ args = <<>> /\ mpc = "idle" /\ flags = NilPtr /\ effects = <<>>
    /\ execs = <<>> /\ ctx = "live" /\ tasks = <<>>
    /\ cfg = <<>> /\ env = <<>> /\ err = NoError /\ pc = "start"
    /\ request = <<>> /\ reparsed = <<>>
    /\ ProxyIdle

\* StartPingIPs: every CheckAlive address gets the record 0, and the task
\* of the pingIPs loop is started.
StartPingIPs ==
    /\ prober.pc = "off"
    /\ PingRecord' = [t \in Targets(device) |-> 0]
    /\ prober' = [prober EXCEPT !.pc = "pingIPs", !.next = 1]
    /\ UNCHANGED <<clock, PingRecordLock, replies>>
    /\ UNCHANGED notPing

\* A ping: its address and request, its socket, and the reply task with
\* the reply it read and holds.
NewPing(addr, at) ==
    [addr |-> addr, request |-> requestPing(at), socket |-> "open",
     pc |-> "Read", read |-> NilPtr]

\* One round of the loop of pingIPs, for the address prober.next: the dial
\* fails; or the socket is open and the write fails; or the ping is written
\* and the reply task started.
PingOne ==
    /\ prober.pc = "pingIPs"
    /\ prober.next <= Len(device.CheckAlive)
    /\ Len(replies) < MaxProbes
    /\ \E ping \in {NewPing(device.CheckAlive[prober.next], Len(replies) + 1)} :
          \/ replies' = replies
          \/ replies' = Append(replies, [ping EXCEPT !.pc = "none"])
          \/ replies' = Append(replies, ping)
    /\ prober' = [prober EXCEPT !.next = @ + 1]
    /\ UNCHANGED <<clock, PingRecord, PingRecordLock>>
    /\ UNCHANGED notPing

\* pingIPs returns, and the loop sleeps CheckAliveInterval seconds.
PingSleep ==
    /\ prober.pc = "pingIPs"
    /\ prober.next > Len(device.CheckAlive)
    /\ prober' = [prober EXCEPT
                     !.pc = "Sleep",
                     !.until = clock + Small(device.CheckAliveInterval)
                                          * TicksPerSecond]
    /\ UNCHANGED <<clock, PingRecord, PingRecordLock, replies>>
    /\ UNCHANGED notPing

\* The sleep is over.
PingWake ==
    /\ prober.pc = "Sleep"
    /\ clock >= prober.until
    /\ prober' = [prober EXCEPT !.pc = "pingIPs", !.next = 1]
    /\ UNCHANGED <<clock, PingRecord, PingRecordLock, replies>>
    /\ UNCHANGED notPing

\* The reply task of the k-th ping: socket.Read fails (the read deadline
\* passes) and the task returns; or it reads a reply, and returns when a
\* check fails.  The task returns with its socket as it is.
PongRead(k) ==
    /\ k \in 1..Len(replies)
    /\ replies[k].pc = "Read"
    /\ \/ replies' = [replies EXCEPT ![k].pc = "returned"]
       \/ \E wire \in WireReplies(replies[k].request) :
             replies' = IF replyAccepted(replies[k].addr, replies[k].request, wire)
                        THEN [replies EXCEPT ![k].read = PtrTo(wire),
                                             ![k].pc = "Lock"]
                        ELSE [replies EXCEPT ![k].pc = "returned"]
    /\ UNCHANGED <<clock, PingRecord, PingRecordLock, prober>>
    /\ UNCHANGED notPing

\* d.PingRecordLock.Lock()
PongLock(k) ==
    /\ k \in 1..Len(replies)
    /\ replies[k].pc = "Lock"
    /\ PingRecordLock = "free"
    /\ PingRecordLock' = replies[k].addr.ip
    /\ replies' = [replies EXCEPT ![k].pc = "write"]
    /\ UNCHANGED <<clock, PingRecord, prober>>
    /\ UNCHANGED notPing

\* d.PingRecord[addr.String()] = time.Now().Unix() and Unlock; the deferred
\* socket.Close is registered, and the task returns and closes the socket.
PongRecord(k) ==
    /\ k \in 1..Len(replies)
    /\ replies[k].pc = "write"
    /\ PingRecord' = [PingRecord EXCEPT ![replies[k].addr.ip] = Unix(clock)]
    /\ PingRecordLock' = "free"
    /\ replies' = [replies EXCEPT ![k].pc = "returned", ![k].socket = "closed"]
    /\ UNCHANGED <<clock, prober>>
    /\ UNCHANGED notPing

ProbeIds == 1..MaxProbes

NextPing ==
    \/ Tick
    \/ StartPingIPs
    \/ PingOne
    \/ PingSleep
    \/ PingWake
    \/ \E k \in ProbeIds : PongRead(k)
    \/ \E k \in ProbeIds : PongLock(k)
    \/ \E k \in ProbeIds : PongRecord(k)

SpecPing == InitPing /\ [][NextPing]_vars

\* The tasks run: the loop of pingIPs goes on, a read returns (with a reply
\* or at its deadline), the lock is taken when it is free, and the record
\* is written.  Time need not pass the bound of the clock.
FairPing ==
    /\ WF_vars(StartPingIPs)
    /\ WF_vars(PingOne)
    /\ WF_vars(PingSleep)
    /\ WF_vars(PingWake)
    /\ \A k \in ProbeIds :
          WF_vars(PongRead(k)) /\ WF_vars(PongLock(k)) /\ WF_vars(PongRecord(k))

SpecPingFair == SpecPing /\ FairPing

(***************************************************************************)
(* The resolver of the tunnel: TUNResolver.Resolve and queryDNS.  The      *)
(* calls of queryDNS are kept in dials, the result of Resolve in resp.     *)
(***************************************************************************)
\* At most this many records in the answer section of a response.
MaxAnswers == 2

ErrNoDNSServers == "no DNS servers configured"
ErrNoRecords == "no A or AAAA records found"
ErrNoMatchingRecords == "no matching DNS records found"
ErrDialFailed == "dial failed"
ErrWriteFailed == "write failed"
ErrReadFailed == "i/o timeout"
ErrUnpack == "dns: unpack failed"
ErrMissingPort == "missing port in address"

TypeA == "A"
TypeAAAA == "AAAA"

\* The DNS lists of a device.
ResolverDevices ==
    {[NewDeviceConfig EXCEPT !.DNS = servers] :
        servers \in {<<>>, <<AddrOf(AddrDNS)>>, <<AddrOf(Addr6)>>,
                     <<AddrOf(AddrDNS), AddrOf(Addr6)>>}}

\* The names asked for.
ResolveNames == {<<"example.com">>, <<"example.com", ".">>}

\* netip.Addr.String
AddrString(addr) == <<addr.ip>>

\* The server Resolve hands to queryDNS: the first DNS server, with ":53"
\* appended to a text without a colon.
dnsServerOf(conf) ==
    LET dnsServer == AddrString(conf.DNS[1])
    IN  IF ~ContainsColon(dnsServer) THEN dnsServer \o <<Colon, "53">>
        ELSE dnsServer

\* name with its closing dot.
absoluteName(name) ==
    IF name[Len(name)] # "." THEN name \o <<".">> ELSE name

\* net.SplitHostPort, as Tnet.DialContext calls it on its address: host:port
\* with the host of an IPv6 literal in brackets.
SplitHostPort(addr) ==
    IF Len(addr) = 3 /\ addr[2] = Colon /\ ~ContainsColon(<<addr[1]>>)
    THEN [err |-> NoError, host |-> addr[1], port |-> addr[3]]
    ELSE IF Len(addr) = 5 /\ addr[1] = "[" /\ addr[3] = "]" /\ addr[4] = Colon
    THEN [err |-> NoError, host |-> addr[2], port |-> addr[5]]
    ELSE [err |-> ErrMissingPort, host |-> "", port |-> ""]

\* The records of an answer section.
AnswerRecords ==
    {[type |-> TypeA, ip |-> AddrOf(Addr4b)],
     [type |-> TypeAAAA, ip |-> AddrOf(Addr6lower)],
     [type |-> "CNAME", ip |-> AddrOf(Addr4)]}

Answers == UNION {[1..n -> AnswerRecords] : n \in 0..MaxAnswers}

\* What the network does to one call of queryDNS: the dial, the write, the
\* read or the unpacking fails, or a response with an answer section is read.
QueryOutcomes ==
    {[fails |-> e, Answer |-> <<>>] :
        e \in {ErrDialFailed, ErrWriteFailed, ErrReadFailed, ErrUnpack}}
    \cup {[fails |-> NoError, Answer |-> a] : a \in Answers}

\* The loop of queryDNS over resp.Answer: the first A or AAAA record.
RECURSIVE firstAddress(_, _)
firstAddress(answer, qtype) ==
    IF answer = <<>> THEN [ip |-> NilPtr, err |-> ErrNoMatchingRecords]
    ELSE IF answer[1].type \in {TypeA, TypeAAAA}
    THEN [ip |-> PtrTo(answer[1].ip), err |-> NoError]
    ELSE firstAddress(Tail(answer), qtype)

\* queryDNS(ctx, dnsServer, name, qtype) with what the network does: what
\* it returns, and whether the query was written to the server.
queryDNS(dnsServer, name, qtype, outcome) ==
    IF SplitHostPort(dnsServer).err # NoError
    THEN [ip |-> NilPtr, err |-> SplitHostPort(dnsServer).err, sent |-> FALSE]
    ELSE IF outcome.fails # NoError
    THEN [ip |-> NilPtr, err |-> outcome.fails,
          sent |-> outcome.fails \in {ErrReadFailed, ErrUnpack}]
    ELSE [ip |-> firstAddress(outcome.Answer, qtype).ip,
          err |-> firstAddress(outcome.Answer, qtype).err,
          sent |-> TRUE]

\* A call of queryDNS as dials keeps it.
Query(dnsServer, name, qtype, result) ==
    [address |-> dnsServer, name |-> name, qtype |-> qtype,
     sent |-> result.sent, ip |-> result.ip, err |-> result.err]

\* What Resolve returns.
Resolved(ip, e) == PtrTo([ip |-> ip, err |-> e])

notResolve ==
    <<cfg, env, device, err, pc, request, reparsed,
      routines, server, conn, peerConn, relay,
      mainVars, clock, PingRecord, PingRecordLock, hpc, replies>>

InitResolve ==
    /\ device \in ResolverDevices
    /\ cfg = <<>> /\ env = <<>> /\ err = NoError /\ pc = "start"
    /\ request = <<>> /\ reparsed = <<>>
    /\ ProxyIdle
    /\ MainIdle
    /\ HealthIdle

\* Resolve up to its first query: without a DNS server it returns its error.
Resolve ==
    /\ spc = "idle"
    /\ \E name \in ResolveNames :
          /\ req' = PtrTo([name |-> name])
          /\ IF Len(device.DNS) = 0
             THEN /\ resp' = Resolved(NilPtr, ErrNoDNSServers)
                  /\ spc' = "returned"
             ELSE /\ resp' = NilPtr
                  /\ spc' = "queryA"
    /\ dials' = <<>>
    /\ UNCHANGED notResolve

\* Resolve: the A query, and the return of its address.
ResolveA ==
    /\ spc = "queryA"
    /\ \E outcome \in QueryOutcomes :
       \E r \in {queryDNS(dnsServerOf(device), absoluteName(req[1].name),
                          TypeA, outcome)} :
          /\ dials' = Append(dials, Query(dnsServerOf(device),
                                          absoluteName(req[1].name), TypeA, r))
          /\ IF r.err = NoError /\ r.ip # NilPtr
             THEN /\ resp' = Resolved(r.ip, NoError)
                  /\ spc' = "returned"
             ELSE /\ resp' = resp
                  /\ spc' = "queryAAAA"
    /\ UNCHANGED req
    /\ UNCHANGED notResolve

\* Resolve: the AAAA query, and the return of its address or of the error.
ResolveAAAA ==
    /\ spc = "queryAAAA"
    /\ \E outcome \in QueryOutcomes :
       \E r \in {queryDNS(dnsServerOf(device), absoluteName(req[1].name),
                          TypeAAAA, outcome)} :
          /\ dials' = Append(dials, Query(dnsServerOf(device),
                                          absoluteName(req[1].name), TypeAAAA, r))
          /\ IF r.err = NoError /\ r.ip # NilPtr
             THEN resp' = Resolved(r.ip, NoError)
             ELSE resp' = Resolved(NilPtr, ErrNoRecords)
    /\ spc' = "returned"
    /\ UNCHANGED req
    /\ UNCHANGED notResolve

\* The caller takes the result, and the resolver is free for the next name.
ResolveReturns ==
    /\ spc = "returned"
    /\ spc' = "idle"
    /\ UNCHANGED <<req, resp, dials>>
    /\ UNCHANGED notResolve

NextResolve ==
    \/ Resolve
    \/ ResolveA
    \/ ResolveAAAA
    \/ ResolveReturns

SpecResolve == InitResolve /\ [][NextResolve]_vars

(***************************************************************************)
(* What the claims speak of.                                               *)
(***************************************************************************)
Done == pc = "done"
Ok == pc = "done" /\ err = NoError

\* The document has its one [Interface] section.
OneSection == Len(SectionsByName(cfg, "interface")) = 1
Sec == cfg["interface"][1]

\* The steps of ParseInterface before ParseASecConfig all pass.
ASecReached ==
    /\ OneSection
    /\ InterfaceStepsFrom(env, [err |-> NoError, device |-> NewDeviceConfig,
                                section |-> Sec], 1, Len(InterfaceSteps) - 1).err
          = NoError

\* ParseASecConfig gets to its call of ValidateASecConfig with an ASecConfig.
ValidationReached ==
    /\ ASecReached
    /\ ParseASecFields(Sec).err = NoError
    /\ ParseASecFields(Sec).conf # NilPtr

\* A decimal numeral as one writes it: digits, no sign, no leading zero.
IsNumeral(text) ==
    /\ Len(text) >= 1
    /\ \A i \in 1..Len(text) : DigitVal(text[i]) < 10
    /\ Len(text) > 1 => text[1] # "0"

RECURSIVE NumeralLimbs(_, _)
NumeralLimbs(text, n) ==
    IF text = <<>> THEN n
    ELSE NumeralLimbs(Tail(text), Normalize(MulAdd(n, 10, DigitVal(text[1]))))

\* The number a numeral, or a numeral after "-", denotes.
IsInteger(text) ==
    IsNumeral(text) \/ (Len(text) >= 2 /\ text[1] = "-" /\ IsNumeral(Tail(text)))
Denoted(text) ==
    IF text[1] = "-" THEN GoInt(TRUE, NumeralLimbs(Tail(text), <<>>))
    ELSE GoInt(FALSE, NumeralLimbs(text, <<>>))

InRange(text, lo, hi) ==
    IntLeq(IntOf(lo), Denoted(text)) /\ IntLeq(Denoted(text), IntOf(hi))

\* The configured value of an ASec count or size: 0 without the key.
Configured(keyName) ==
    IF HasKey(Sec, keyName) THEN Small(Denoted(Sec[keyName])) ELSE 0

SizeKeys == {"jmin", "jmax", "s1", "s2"}
HeaderKeys == {"h1", "h2", "h3", "h4"}
StringKeys == {"i1", "i2", "i3", "i4", "i5", "j1", "j2", "j3"}
ASecKeys == {"jc", "itime"} \cup SizeKeys \cup HeaderKeys \cup StringKeys

\* Every numeric ASec key of the section is written as a plain integer.
PlainASec ==
    \A k \in ({"jc", "itime"} \cup SizeKeys \cup HeaderKeys) \cap DOMAIN Sec :
        IsInteger(Sec[k])

ASec == device.ASecConfig[1]

\* The section of a test: the base section with the given ASec keys.
IsTestSection(junk, headers) ==
    OneSection /\ \A k \in ASecKeys :
        IF k \in DOMAIN junk THEN HasKey(Sec, k) /\ Sec[k] = junk[k]
        ELSE IF k \in DOMAIN headers THEN HasKey(Sec, k) /\ Sec[k] = headers[k]
        ELSE ~HasKey(Sec, k)

(***************************************************************************)
(* C1.  As stated: ParseInterface rejects a Jc outside 1..128, Jc = 200    *)
(* of the test among them, with the error text "value of the Jc field must *)
(* be within the range of 1 to 128".                                       *)
(***************************************************************************)
ErrJcRange1To128 == "value of the Jc field must be within the range of 1 to 128"

JunkWithJc200 == [BaseJunk EXCEPT !.jc = <<"2", "0", "0">>]

CountKeys == {"jc"} \cup SizeKeys

\* The largest value the spec allows a count or size key.
RangeMax(keyName) == IF keyName = "jc" THEN 200 ELSE 1280

\* The error ParseASecConfig has for a key out of its range.
RangeError(keyName) ==
    CASE keyName = "jc" -> ErrJcRange
      [] keyName = "jmin" -> ErrJminRange
      [] keyName = "jmax" -> ErrJmaxRange
      [] keyName = "s1" -> ErrS1Range
      [] keyName = "s2" -> ErrS2Range

\* The field of ASecConfig a count or size key is stored in.
FieldOf(keyName) ==
    CASE keyName = "jc" -> "junkPacketCount"
      [] keyName = "jmin" -> "junkPacketMinSize"
      [] keyName = "jmax" -> "junkPacketMaxSize"
      [] keyName = "s1" -> "initPacketJunkSize"
      [] keyName = "s2" -> "responsePacketJunkSize"

C2_WitnessRejected ==
    /\ Done /\ ASecReached /\ PlainASec
    /\ HasKey(Sec, "jmin") /\ Sec["jmin"] = <<"1", "2", "8", "1">>
    /\ err = ErrJminRange /\ device.ASecConfig = NilPtr

(***************************************************************************)
(* C3.  Jmin against Jmax.                                                 *)
(***************************************************************************)
\* Jmin > Jmax as the section configures them.
JminAboveJmax == Configured("jmin") > Configured("jmax")

\* S1 + 148 = S2 + 92 as the section configures them.
SizesCollide == Configured("s1") + 148 = Configured("s2") + 92

\* C3: after every successful parse with ASecConfig present and Jc > 0,
\* Jmin <= Jmax; a section with Jc > 0 and Jmin > Jmax fails with the error
\* text "value of the Jmin field must be less than or equal to Jmax field
\* value"; with Jc 0 or absent Jmin > Jmax is accepted: it never gets that
\* error, and the parse succeeds when no other cross-field rule is broken.
C3_JminAtMostJmax ==
    /\ (Ok /\ device.ASecConfig # NilPtr /\ ASec.junkPacketCount > 0)
          => ASec.junkPacketMinSize <= ASec.junkPacketMaxSize
    /\ (Done /\ ValidationReached /\ PlainASec /\ JminAboveJmax)
          => IF Configured("jc") > 0 THEN err = ErrJminJmax
             ELSE /\ err # ErrJminJmax
                  /\ (~SizesCollide /\ \A k \in HeaderKeys : ~HasKey(Sec, k))
                        => err = NoError

\* Jc = 5, Jmin = 55, Jmax = 50 of the test is rejected with the text.
C3_Witness ==
    /\ Done /\ ValidationReached
    /\ HasKey(Sec, "jc") /\ Sec["jc"] = <<"5">>
    /\ HasKey(Sec, "jmin") /\ Sec["jmin"] = <<"5", "5">>
    /\ HasKey(Sec, "jmax") /\ Sec["jmax"] = <<"5", "0">>
    /\ err = ErrJminJmax

\* Jmin = 55 above Jmax = 50 is accepted with Jc = 0.
C3_WitnessAccepted ==
    /\ Ok /\ device.ASecConfig # NilPtr
    /\ ASec.junkPacketCount = 0
    /\ ASec.junkPacketMinSize = 55 /\ ASec.junkPacketMaxSize = 50

(***************************************************************************)
(* C4.  The error text for a Jmax above 1280.                              *)
(***************************************************************************)
\* The text TestWireguardConfWithInvalid3AWGParams expects.
ErrJmaxAtMost1280 == "value of the Jmax field must be less than or equal 1280"

\* Jc = 5, Jmin = 10, Jmax = 1300, S1 = 0, S2 = 0 of the test.
JunkWithJmax1300 == [BaseJunk EXCEPT !.jmax = <<"1", "3", "0", "0">>]

\* C4: a section whose Jmax exceeds 1280, its Jc and Jmin being in range,
\* is rejected with the error text "value of the Jmax field must be less
\* than or equal 1280".
C4_JmaxAbove1280Text ==
    (Done /\ ASecReached /\ PlainASec
          /\ HasKey(Sec, "jmax") /\ IntLess(IntOf(1280), Denoted(Sec["jmax"]))
          /\ \A k \in {"jc", "jmin"} :
                HasKey(Sec, k) => InRange(Sec[k], 0, RangeMax(k)))
        => err = ErrJmaxAtMost1280

\* What the code answers the test's section with.
C4_CodeText ==
    (Done /\ IsTestSection(JunkWithJmax1300, BaseHeaders)) => err = ErrJmaxRange

C4_Witness ==
    Done /\ IsTestSection(JunkWithJmax1300, BaseHeaders) /\ err = ErrJmaxRange

(***************************************************************************)
(* C5.  S1 + 148 against S2 + 92.                                          *)
(***************************************************************************)
\* C5 as stated: whenever ASecConfig is present and S1 + 148 = S2 + 92 the
\* parse fails with the error text "value of the field S1 + message
\* initiation size (148) must not equal S2 + message response size (92)".
C5_CollisionAlwaysItsText ==
    (Done /\ ValidationReached /\ PlainASec /\ SizesCollide) => err = ErrS1S2

\* C5, amended: whenever ASecConfig is present and S1 + 148 = S2 + 92 the
\* parse fails; the error text is that of the S1/S2 rule unless Jc > 0 and
\* Jmin > Jmax, which is checked first and answers with the Jmin text; after
\* every successful parse with ASecConfig present S1 + 148 # S2 + 92.
C5_CollisionRejected ==
    /\ (Ok /\ device.ASecConfig # NilPtr)
          => ASec.initPacketJunkSize + 148 # ASec.responsePacketJunkSize + 92
    /\ (Done /\ ValidationReached /\ PlainASec /\ SizesCollide)
          => err = IF Configured("jc") > 0 /\ JminAboveJmax
                   THEN ErrJminJmax ELSE ErrS1S2

\* S1 = 0, S2 = 56 of the test is rejected with the S1/S2 text.
C5_Witness ==
    /\ Done /\ ValidationReached
    /\ IsTestSection([BaseJunk EXCEPT !.s2 = <<"5", "6">>], BaseHeaders)
    /\ err = ErrS1S2

\* S1 = 0, S2 = 56 together with Jc = 5, Jmin = 55, Jmax = 50.
C5_WitnessJminFirst ==
    /\ Done /\ ValidationReached /\ PlainASec /\ SizesCollide
    /\ Configured("jc") > 0 /\ JminAboveJmax
    /\ err = ErrJminJmax

(***************************************************************************)
(* C6.  H1..H4: all or none, in range, pairwise distinct.                  *)
(***************************************************************************)
\* The value of a header key, in limbs.
HeaderValue(keyName) == NumeralLimbs(Sec[keyName], <<>>)

\* The field of ASecConfig a header key is stored in.
HeaderField(keyName) ==
    CASE keyName = "h1" -> "initPacketMagicHeader"
      [] keyName = "h2" -> "responsePacketMagicHeader"
      [] keyName = "h3" -> "underloadPacketMagicHeader"
      [] keyName = "h4" -> "transportPacketMagicHeader"

\* 1 <= value <= 2^32 - 1, in limbs.
InHeaderRange(limbs) == limbs # <<>> /\ NatLeq(limbs, <<65535, 65535>>)

\* C6: after every successful parse, if any of H1..H4 is in the section
\* then all four are, each stored with its value in 1..2^32-1, and the four
\* values are pairwise distinct; a section with only some of H1..H4, or with
\* two of them at the same value, is rejected.
C6_HeadersAllOrNone ==
    /\ (Ok /\ OneSection /\ \E k \in HeaderKeys : HasKey(Sec, k))
          => /\ device.ASecConfig # NilPtr
             /\ \A k \in HeaderKeys :
                   /\ HasKey(Sec, k)
                   /\ InHeaderRange(ASec[HeaderField(k)])
                   /\ IsNumeral(Sec[k]) => ASec[HeaderField(k)] = HeaderValue(k)
             /\ \A k, l \in HeaderKeys :
                   k # l => ASec[HeaderField(k)] # ASec[HeaderField(l)]
    /\ (Done /\ ASecReached /\ PlainASec
             /\ \E k, l \in HeaderKeys : HasKey(Sec, k) /\ ~HasKey(Sec, l))
          => err # NoError
    /\ (Done /\ ASecReached /\ PlainASec
             /\ \E k, l \in HeaderKeys :
                   /\ k # l /\ HasKey(Sec, k) /\ HasKey(Sec, l)
                   /\ Denoted(Sec[k]) = Denoted(Sec[l]))
          => err # NoError

\* H2 alone is reported missing.
C6_Witness ==
    /\ Done /\ ValidationReached
    /\ HasKey(Sec, "h1") /\ ~HasKey(Sec, "h2") /\ HasKey(Sec, "h3") /\ HasKey(Sec, "h4")
    /\ err = ErrHUnset(2)

\* Four distinct headers, the largest 2^32 - 1, are accepted.
C6_WitnessAccepted ==
    /\ Ok /\ OneSection /\ \A k \in HeaderKeys : HasKey(Sec, k)
    /\ device.ASecConfig # NilPtr
    /\ ASec.transportPacketMagicHeader = <<65535, 65535>>

(***************************************************************************)
(* C7.  The error text for a repeated header.                              *)
(***************************************************************************)
\* The text TestWireguardConfWithInvalid5AWGParams expects.
ErrHUnique == "values of the H1-H4 fields must be unique"

\* H1 = 1, H2 = 2, H3 = 2, H4 = 4 of the test.
HeadersWithH3AsH2 == [BaseHeaders EXCEPT !.h3 = <<"2">>]

\* C7: when two of H1..H4 carry the same value, and the section passes the
\* rules checked before, the error text is "values of the H1-H4 fields must
\* be unique".
C7_RepeatedHeaderText ==
    (Done /\ ValidationReached /\ PlainASec
          /\ ~(Configured("jc") > 0 /\ JminAboveJmax) /\ ~SizesCollide
          /\ \E k, l \in HeaderKeys :
                /\ k # l /\ HasKey(Sec, k) /\ HasKey(Sec, l)
                /\ Denoted(Sec[k]) = Denoted(Sec[l]))
        => err = ErrHUnique

\* What the code answers the test's section with.
C7_Witness ==
    /\ Done /\ IsTestSection(BaseJunk, HeadersWithH3AsH2)
    /\ err = ErrHConflict(3)

(***************************************************************************)
(* C8.  ASecConfig is made on the first ASec key, and holds what the       *)
(* section configures.                                                     *)
(***************************************************************************)
\* C8: after a successful ParseInterface, ASecConfig is present if and only
\* if at least one ASec key appears in [Interface]; in a present ASecConfig
\* each of i1..i5, j1..j3, itime is unset exactly when its key is absent, a
\* present I/J string is stored unchanged, and each numeric field equals the
\* configured value (0 for an absent key).
C8_ASecConfigHoldsTheSection ==
    (Ok /\ OneSection /\ PlainASec)
        => /\ device.ASecConfig # NilPtr <=> \E k \in ASecKeys : HasKey(Sec, k)
           /\ device.ASecConfig # NilPtr
                 => /\ \A k \in StringKeys :
                          /\ ASec[k] = NilPtr <=> ~HasKey(Sec, k)
                          /\ HasKey(Sec, k) => ASec[k] = <<Sec[k]>>
                    /\ ASec.itime = NilPtr <=> ~HasKey(Sec, "itime")
                    /\ HasKey(Sec, "itime")
                          => ASec.itime = <<Denoted(Sec["itime"])>>
                    /\ \A k \in CountKeys : ASec[FieldOf(k)] = Configured(k)
                    /\ \A k \in HeaderKeys :
                          ASec[HeaderField(k)]
                             = IF HasKey(Sec, k) THEN HeaderValue(k) ELSE <<>>

\* I1 = "<b 0xA1B2C3D4E5F6>" of the test, kept next to Jc = 5 and ITime,
\* with I2 left unset.
C8_Witness ==
    /\ Ok /\ OneSection /\ device.ASecConfig # NilPtr
    /\ ASec.i1 = <<SpecialJunk1>> /\ ASec.i2 = NilPtr
    /\ ASec.junkPacketCount = 5 /\ ASec.transportPacketMagicHeader = <<4>>
    /\ ASec.itime # NilPtr

\* A section without any ASec key leaves ASecConfig absent.
C8_WitnessAbsent ==
    /\ Ok /\ OneSection /\ device.ASecConfig = NilPtr
    /\ \A k \in ASecKeys : ~HasKey(Sec, k)

(***************************************************************************)
(* C9.  The Address list.                                                  *)
(***************************************************************************)
\* The non-empty comma-separated elements of a value, trimmed.
Elements(value) ==
    SelectSeq([i \in 1..Len(Split(value)) |-> TrimSpace(Split(value)[i])],
              LAMBDA e : e # <<>>)

\* An element written as a bare address.
IsBare(e) == Len(e) = 1 /\ e[1] \in AddrLiterals

\* An element written as a CIDR prefix: address, "/", a length the address
\* family has room for.
IsCIDR(e) ==
    /\ Len(e) = 3 /\ e[1] \in AddrLiterals /\ e[2] = Slash /\ e[3] \in BitsLiterals
    /\ BitsOf(e[3]) <= (IF AddrOf(e[1]).is4 THEN 32 ELSE 128)

\* What the claim has ParseInterface do with an Address value: one address
\* per element in the same order, or a failed parse.
AddressRule(value) ==
    LET elems == Elements(value)
    IN  IF \A i \in 1..Len(elems) : IsBare(elems[i]) \/ IsCIDR(elems[i])
        THEN device.Endpoint = [i \in 1..Len(elems) |-> AddrOf(elems[i][1])]
        ELSE err # NoError /\ device.Endpoint = <<>>

\* C9 as stated: for every Address value, Endpoint holds one bare address
\* per non-empty comma-separated element of the value, in the same order,
\* and an element that is neither an address nor a CIDR prefix makes the
\* parse fail.
C9_EveryAddressValue ==
    (Done /\ OneSection) => AddressRule(Sec["address"])

\* C9, amended: the rule holds of the Address value as parseString returns
\* it, after environment interpolation: a value $NAME stands for the value
\* of the environment variable NAME (the parse fails if it is unset), and a
\* leading $$ for $.  So "100.96.0.190,2606:B300:FFFF:fe8a:2ac6:c7e8:b021:
\* 6f5f/128" yields exactly two addresses, written in the file or held by
\* the variable the file names.
C9_InterpolatedAddressValue ==
    (Done /\ OneSection)
        => LET value == Sec["address"]
           IN  /\ (value = <<>> \/ value[1] # Dollar) => AddressRule(value)
               /\ (Len(value) >= 2 /\ value[1] = Dollar /\ value[2] = Dollar)
                     => AddressRule(Tail(value))
               /\ (value # <<>> /\ value[1] = Dollar
                      /\ ~(Len(value) >= 2 /\ value[2] = Dollar))
                     => IF Tail(value) \in DOMAIN env
                        THEN AddressRule(env[Tail(value)])
                        ELSE err # NoError /\ device.Endpoint = <<>>
               /\ value = ManyAddress
                     => device.Endpoint = <<AddrOf(Addr4b), AddrOf(Addr6)>>

\* Three elements, a prefix among them, give three addresses in order.
C9_Witness ==
    /\ Ok /\ OneSection
    /\ Sec["address"] = <<Addr4, Slash, "23", Comma, Space, Addr4b, Space,
                          Comma, Addr6>>
    /\ device.Endpoint = <<AddrOf(Addr4), AddrOf(Addr4b), AddrOf(Addr6)>>

\* The Address names an environment variable holding the test's list.
C9_WitnessInterpolated ==
    /\ Ok /\ OneSection
    /\ Sec["address"] = <<Dollar>> \o EnvName
    /\ device.Endpoint = <<AddrOf(Addr4b), AddrOf(Addr6)>>

\* The list of the test, written in the file, gives its two addresses.
C9_WitnessManyAddress ==
    /\ Ok /\ OneSection /\ Sec["address"] = ManyAddress
    /\ device.Endpoint = <<AddrOf(Addr4b), AddrOf(Addr6)>>

(***************************************************************************)
(* C10.  CheckAliveInterval needs CheckAlive, and defaults to 5.           *)
(***************************************************************************)
\* The steps of ParseInterface before the CheckAliveInterval block all pass.
IntervalReached ==
    /\ OneSection
    /\ InterfaceStepsFrom(env, [err |-> NoError, device |-> NewDeviceConfig,
                                section |-> Sec], 1, Len(InterfaceSteps) - 2).err
          = NoError

\* C10: with the CheckAliveInterval key present and CheckAlive absent or
\* empty the parse fails, with the error text "CheckAliveInterval is only
\* valid when CheckAlive is set" when the block is reached with an integer;
\* with the key absent, CheckAliveInterval is 5 after a successful parse,
\* whether or not CheckAlive is set.
C10_IntervalNeedsCheckAlive ==
    /\ (Done /\ OneSection /\ HasKey(Sec, "checkaliveinterval")
             /\ KeyString(Sec, "checkalive") = <<>>)
          => /\ err # NoError
             /\ (IntervalReached /\ IsInteger(Sec["checkaliveinterval"]))
                   => err = ErrCheckAliveInterval
    /\ (Ok /\ OneSection /\ ~HasKey(Sec, "checkaliveinterval"))
          => device.CheckAliveInterval = IntOf(5)

\* CheckAliveInterval = 10 without CheckAlive.
C10_Witness ==
    /\ Done /\ OneSection
    /\ HasKey(Sec, "checkaliveinterval") /\ Sec["checkaliveinterval"] = <<"1", "0">>
    /\ KeyString(Sec, "checkalive") = <<>>
    /\ err = ErrCheckAliveInterval

\* The default interval next to a CheckAlive list of two addresses.
C10_WitnessDefault ==
    /\ Ok /\ OneSection /\ ~HasKey(Sec, "checkaliveinterval")
    /\ Len(device.CheckAlive) = 2
    /\ device.CheckAliveInterval = IntOf(5)

(***************************************************************************)
(* C11.  One [Interface], at least one [Peer].                             *)
(***************************************************************************)
\* ParsePeers has returned, and Parse with it.
Parsed == pc \notin {"start", "done"}
ParseOk == Parsed /\ err = NoError

\* C11: Parse succeeds only for a document with exactly one [Interface]
\* section and at least one [Peer] section: zero or several [Interface]
\* make ParseInterface fail, zero [Peer] make ParsePeers fail, and after
\* every successful Parse Peers is non-empty, with one PeerConfig per
\* [Peer] section in document order.
C11_OneInterfaceSomePeers ==
    /\ (Done /\ Len(cfg["interface"]) # 1) => err = ErrOneInterface
    /\ (Parsed /\ Len(cfg["peer"]) = 0) => err = ErrOnePeer
    /\ ParseOk
          => /\ Len(cfg["interface"]) = 1 /\ Len(cfg["peer"]) >= 1
             /\ Len(device.Peers) = Len(cfg["peer"])
             /\ \A i \in 1..Len(device.Peers) :
                   device.Peers[i].PublicKey
                      = DecodeString(cfg["peer"][i]["publickey"]).hex

\* Three [Peer] sections, the first two of different keys, give three peers.
C11_Witness ==
    /\ ParseOk /\ Len(device.Peers) >= 3
    /\ device.Peers[1].PublicKey # device.Peers[2].PublicKey

\* A document without [Peer] fails in ParsePeers.
C11_WitnessNoPeer ==
    Parsed /\ Len(cfg["interface"]) = 1 /\ Len(cfg["peer"]) = 0 /\ err = ErrOnePeer

(***************************************************************************)
(* C12.  The range of ListenPort.                                          *)
(***************************************************************************)
\* C12: after every successful parse ListenPort, when present, is an
\* integer in 0..65535, and a ListenPort outside that range (negative or
\* above 65535) makes the parse fail.
C12_ListenPortInRange ==
    /\ (Ok /\ device.ListenPort # NilPtr)
          => /\ IntLeq(IntOf(0), device.ListenPort[1])
             /\ IntLeq(device.ListenPort[1], IntOf(65535))
    /\ (Done /\ OneSection /\ HasKey(Sec, "listenport")
             /\ IsInteger(Sec["listenport"])
             /\ ~InRange(Sec["listenport"], 0, 65535))
          => err # NoError

\* ListenPort = 70000 is parsed and stored.
C12_Witness ==
    /\ Ok /\ OneSection /\ HasKey(Sec, "listenport")
    /\ Sec["listenport"] = <<"7", "0", "0", "0", "0">>
    /\ device.ListenPort = <<IntOf(70000)>>

\* What ParseInterface does hold to: a ListenPort that is an integer is
\* stored as it is written, whatever its value.
C12_ListenPortStored ==
    (Done /\ OneSection /\ HasKey(Sec, "listenport") /\ IsInteger(Sec["listenport"])
          /\ InterfaceStepsFrom(env, [err |-> NoError, device |-> NewDeviceConfig,
                                      section |-> Sec], 1, 4).err = NoError)
        => device.ListenPort = <<Denoted(Sec["listenport"])>>

(***************************************************************************)
(* C13.  The layout of the request CreateIPCRequest writes.                *)
(***************************************************************************)
Requested == pc \in {"CreateIPCRequest", "StartWireguard"}

\* What the layout fixes of a line: its key, and of an allowed_ip line the
\* prefix too.
Shape(line) == IF line[1] = "allowed_ip" THEN line ELSE <<line[1]>>

NotReplacePeers(line) == line[1] # "replace_peers"

\* The request without its replace_peers line, each line cut to its shape.
Layout(lines) ==
    LET kept == SelectSeq(lines, NotReplacePeers)
    IN  [i \in 1..Len(kept) |-> Shape(kept[i])]

OptionalKey(present, key) == IF present THEN <<<<key>>>> ELSE <<>>

ClaimedASec(a) ==
    <<<<"jc">>, <<"jmin">>, <<"jmax">>, <<"s1">>, <<"s2">>,
      <<"h1">>, <<"h2">>, <<"h3">>, <<"h4">>>>
    \o OptionalKey(a.i1 # NilPtr, "i1") \o OptionalKey(a.i2 # NilPtr, "i2")
    \o OptionalKey(a.i3 # NilPtr, "i3") \o OptionalKey(a.i4 # NilPtr, "i4")
    \o OptionalKey(a.i5 # NilPtr, "i5") \o OptionalKey(a.j1 # NilPtr, "j1")
    \o OptionalKey(a.j2 # NilPtr, "j2") \o OptionalKey(a.j3 # NilPtr, "j3")
    \o OptionalKey(a.itime # NilPtr, "itime")

ClaimedAllowed(peer) ==
    IF peer.AllowedIPs = <<>>
    THEN <<<<"allowed_ip", <<"0.0.0.0", "/", "0">>>>,
           <<"allowed_ip", <<"::", "/", "0">>>>>>
    ELSE [i \in 1..Len(peer.AllowedIPs) |->
             <<"allowed_ip", <<peer.AllowedIPs[i].addr.ip, "/",
                               ToString(peer.AllowedIPs[i].bits)>>>>]

ClaimedPeer(peer) ==
    <<<<"public_key">>, <<"persistent_keepalive_interval">>, <<"preshared_key">>>>
    \o OptionalKey(peer.Endpoint # NilPtr, "endpoint")
    \o <<<<"replace_allowed_ips">>>>
    \o ClaimedAllowed(peer)

RECURSIVE ClaimedPeers(_)
ClaimedPeers(peers) ==
    IF peers = <<>> THEN <<>> ELSE ClaimedPeer(peers[1]) \o ClaimedPeers(Tail(peers))

ClaimedLayout(conf) ==
    <<<<"private_key">>>>
    \o OptionalKey(conf.ListenPort # NilPtr, "listen_port")
    \o (IF conf.ASecConfig # NilPtr THEN ClaimedASec(conf.ASecConfig[1]) ELSE <<>>)
    \o ClaimedPeers(conf.Peers)

\* C13: the request CreateIPCRequest writes starts with private_key, has a
\* listen_port line iff ListenPort is set, has the ASec lines (jc .. h4, then
\* the present ones of i1..i5, j1..j3, itime) iff ASecConfig is set, and has
\* for every peer, in order, public_key, persistent_keepalive_interval,
\* preshared_key, the optional endpoint, replace_allowed_ips=true and then
\* the peer's prefixes in order, or 0.0.0.0/0 and ::/0 when it has none.
C13_RequestLayout ==
    Requested
        => /\ request[1][1] = "private_key"
           /\ Layout(request) = ClaimedLayout(device)

\* The request StartWireguard sends for a peer without AllowedIPs: no
\* replace_allowed_ips line, and ::0/0 for the IPv6 default route.
C13_Witness ==
    /\ pc = "StartWireguard"
    /\ \E i \in 1..Len(device.Peers) : device.Peers[i].AllowedIPs = <<>>
    /\ \A i \in 1..Len(request) : request[i][1] # "replace_allowed_ips"
    /\ \E i \in 1..Len(request) : request[i] = <<"allowed_ip", <<"::0", "/", "0">>>>

\* The CreateIPCRequest next to the parser does write the claimed layout.
C13_ConfigSourceLayout ==
    pc = "CreateIPCRequest"
        => /\ request[1][1] = "private_key"
           /\ Layout(request) = ClaimedLayout(device)

C13_WitnessConfigSource ==
    /\ pc = "CreateIPCRequest"
    /\ device.ListenPort # NilPtr /\ device.ASecConfig # NilPtr
    /\ device.ASecConfig[1].i1 # NilPtr /\ device.ASecConfig[1].i2 = NilPtr
    /\ \E i \in 1..Len(device.Peers) : device.Peers[i].AllowedIPs = <<>>
    /\ \E i \in 1..Len(device.Peers) :
          Len(device.Peers[i].AllowedIPs) >= 2 /\ device.Peers[i].Endpoint # NilPtr
    /\ \E i \in 1..Len(request) : request[i][1] = "replace_peers"

(***************************************************************************)
(* C14.  The update-only request of CreatePeerIPCRequest.                  *)
(***************************************************************************)
\* The keys of the device, as the UAPI has them.
DeviceLevelKeys ==
    {"private_key", "listen_port", "fwmark", "replace_peers"} \cup
    {"jc", "jmin", "jmax", "s1", "s2", "h1", "h2", "h3", "h4",
     "i1", "i2", "i3", "i4", "i5", "j1", "j2", "j3", "itime"}

ClaimedUpdatePeer(peer) ==
    <<<<"public_key">>, <<"update_only">>,
      <<"persistent_keepalive_interval">>, <<"preshared_key">>>>
    \o OptionalKey(peer.Endpoint # NilPtr, "endpoint")
    \o <<<<"replace_allowed_ips">>>>
    \o ClaimedAllowed(peer)

RECURSIVE ClaimedUpdatePeers(_)
ClaimedUpdatePeers(peers) ==
    IF peers = <<>> THEN <<>>
    ELSE ClaimedUpdatePeer(peers[1]) \o ClaimedUpdatePeers(Tail(peers))

\* C14: the request CreatePeerIPCRequest writes has no device-level key; it
\* is the peers' blocks and nothing else, each public_key, update_only=true,
\* persistent_keepalive_interval, preshared_key, the optional endpoint,
\* replace_allowed_ips=true and the allowed_ip lines, so that its first line
\* is the first peer's public_key line.
C14_UpdateOnlyPeersOnly ==
    pc = "CreatePeerIPCRequest"
        => /\ \A i \in 1..Len(request) : request[i][1] \notin DeviceLevelKeys
           /\ request[1] = <<"public_key", <<device.Peers[1].PublicKey>>>>
           /\ [i \in 1..Len(request) |-> Shape(request[i])]
                 = ClaimedUpdatePeers(device.Peers)

\* The request starts with replace_peers=true.
C14_Witness ==
    /\ pc = "CreatePeerIPCRequest"
    /\ Len(device.Peers) >= 2
    /\ request[1] = <<"replace_peers", <<"true">>>>
    /\ request[2] = <<"public_key", <<device.Peers[1].PublicKey>>>>

\* After that first line the request is what the claim describes.
C14_PeerBlocksAfterFirstLine ==
    pc = "CreatePeerIPCRequest"
        => /\ request[1] = <<"replace_peers", <<"true">>>>
           /\ Layout(request) = ClaimedUpdatePeers(device.Peers)

(***************************************************************************)
(* C15.  Parsing the serializer's output.                                  *)
(***************************************************************************)
Reparsed == pc = "ParseConfigString"

HTTP == server # NilPtr /\ server[1].kind = "http"

\* The credentials of the [http] section.
HTTPUsername == KeyString(cfg["http"][1], "username")
HTTPPassword == KeyString(cfg["http"][1], "password")
HTTPCredentialsSet == HTTPUsername # <<>> \/ HTTPPassword # <<>>

\* serve has authenticated the request it read.
Authenticated == HTTP /\ req # NilPtr /\ spc # "authenticate"

\* What a Proxy-Authorization header holds: nothing, a text that is not
\* Base64, a value without a colon, or the pair of a user and a password.
Presented(header) ==
    CASE header = <<>> -> [kind |-> "missing"]
      [] header = <<"Basic ", B64Invalid>> -> [kind |-> "undecodable"]
      [] header = <<"Basic ", B64User>> -> [kind |-> "no colon"]
      [] header \in {<<"Basic ", B64UserPass>>, <<B64UserPass>>}
            -> [kind |-> "pair", user |-> <<"user">>, password |-> <<"pass">>]
      [] header = <<"Basic ", B64UserWrong>>
            -> [kind |-> "pair", user |-> <<"user">>, password |-> <<"wrong">>]
      [] header = <<"Basic ", B64ColonPass>>
            -> [kind |-> "pair", user |-> <<>>, password |-> <<"pass">>]
      [] header = <<"Basic ", B64UserColon>>
            -> [kind |-> "pair", user |-> <<"user">>, password |-> <<>>]

Mismatch(p) ==
    p.kind = "pair" /\ (p.user # HTTPUsername \/ p.password # HTTPPassword)

\* The status the claim gives a request that fails authentication, "0" for
\* one that does not.
ClaimedStatus(header) ==
    LET p == Presented(header)
    IN  CASE p.kind = "missing" -> StatusProxyAuthRequired
          [] p.kind = "undecodable" -> StatusNotAcceptable
          [] p.kind = "no colon" -> StatusLengthRequired
          [] OTHER -> IF Mismatch(p) THEN StatusUnauthorized ELSE StatusNone

ClaimedResponse(status) ==
    [status |-> status,
     header |-> IF status = StatusProxyAuthRequired
                THEN <<"Proxy-Authenticate", "Basic realm=\"Proxy\"">> ELSE <<>>]

AuthStatuses ==
    {StatusProxyAuthRequired, StatusNotAcceptable, StatusLengthRequired,
     StatusUnauthorized}

\* Nothing was dialed and nothing relayed.
Untouched == dials = <<>> /\ peerConn = NilPtr /\ relay = <<>>

\* C16: with a Username or a Password set, the HTTP proxy authenticates
\* every request before it handles its method: a missing Proxy-Authorization
\* gets 407 with Proxy-Authenticate: Basic realm="Proxy", undecodable Base64
\* 406, a value without ':' 411, a pair that does not match 401, and in each
\* case nothing is dialed and nothing relayed; with both empty no
\* authentication is required.
C16_AuthenticatedBeforeHandling ==
    /\ HTTP => (server[1].authRequired <=> HTTPCredentialsSet)
    /\ (Authenticated /\ HTTPCredentialsSet
            /\ ClaimedStatus(req[1].ProxyAuthorization) # StatusNone)
          => /\ conn[1].written
                   = <<ClaimedResponse(ClaimedStatus(req[1].ProxyAuthorization))>>
             /\ spc \in {"returned", "closed"}
             /\ Untouched
    /\ (Authenticated /\ ~HTTPCredentialsSet)
          => /\ \A i \in 1..Len(conn[1].written) :
                   conn[1].written[i].status \notin AuthStatuses
             /\ spc = "method" => conn[1].written = <<>>

\* Each of the four refusals happens, with the Password alone set too.
C16_Witness ==
    /\ Authenticated /\ HTTPUsername = <<>> /\ HTTPPassword = <<"pass">>
    /\ req[1].ProxyAuthorization = <<"Basic ", B64UserPass>>
    /\ conn[1].written = <<[status |-> StatusUnauthorized, header |-> <<>>]>>

C16_Witness407 ==
    /\ Authenticated /\ HTTPCredentialsSet /\ req[1].ProxyAuthorization = <<>>
    /\ conn[1].written = <<ClaimedResponse(StatusProxyAuthRequired)>> /\ spc = "closed"

C16_Witness406 ==
    /\ Authenticated /\ HTTPCredentialsSet
    /\ conn[1].written = <<ClaimedResponse(StatusNotAcceptable)>>

C16_Witness411 ==
    /\ Authenticated /\ HTTPCredentialsSet
    /\ conn[1].written = <<ClaimedResponse(StatusLengthRequired)>>

\* Without credentials a request without the header is dialed.
C16_WitnessNoAuth ==
    /\ Authenticated /\ ~HTTPCredentialsSet
    /\ req[1].ProxyAuthorization = <<>> /\ dials # <<>>

\* With credentials the matching pair is let through.
C16_WitnessMatching ==
    /\ Authenticated /\ HTTPCredentialsSet
    /\ req[1].ProxyAuthorization = <<"Basic ", B64UserPass>> /\ dials # <<>>

(***************************************************************************)
(* C17.  Authentication by the SOCKS5 proxy.                               *)
(***************************************************************************)
Socks5 == server # NilPtr /\ server[1].kind = "socks5"

\* The credentials of the [Socks5] section.
Socks5Username == KeyString(cfg["socks5"][1], "username")
Socks5Password == KeyString(cfg["socks5"][1], "password")
Socks5CredentialsSet == Socks5Username # <<>> \/ Socks5Password # <<>>

\* ServeConn has served the client's request.
Served == Socks5 /\ req # NilPtr

\* The client authenticates with the configured pair.
PresentsConfiguredPair ==
    /\ "UserPass" \in req[1].methods
    /\ req[1].user = Socks5Username
    /\ req[1].password = Socks5Password

Proxied == dials # <<>>

AcceptsUnauthenticated ==
    \E i \in 1..Len(server[1].authMethods) : server[1].authMethods[i].method = "NoAuth"

\* C17: the SOCKS5 server accepts unauthenticated clients exactly when the
\* Username and the Password are both empty; with either one set, a client
\* that does not present the configured pair is never proxied.
C17_Socks5AuthWithEitherCredential ==
    /\ Socks5 => (AcceptsUnauthenticated <=> ~Socks5CredentialsSet)
    /\ (Served /\ Socks5CredentialsSet /\ ~PresentsConfiguredPair) => ~Proxied

\* With the Password alone set, a client that offers no authentication is
\* proxied.
C17_Witness ==
    /\ Served /\ Socks5Username = <<>> /\ Socks5Password = <<"pass">>
    /\ req[1].methods = {"NoAuth"}
    /\ AcceptsUnauthenticated /\ Proxied

\* What the server holds to: authentication goes by the Username alone.
C17_Socks5AuthWithUsername ==
    /\ Socks5 => (AcceptsUnauthenticated <=> Socks5Username = <<>>)
    /\ (Served /\ Socks5Username # <<>> /\ ~PresentsConfiguredPair) => ~Proxied
    /\ (Served /\ Socks5Username = <<>> /\ "NoAuth" \in req[1].methods) => Proxied

C17_WitnessUsername ==
    /\ Served /\ Socks5Username = <<"user">> /\ Socks5Password = <<>>
    /\ req[1].methods = {"NoAuth", "UserPass"} /\ req[1].password = <<"wrong">>
    /\ ~Proxied /\ spc = "closed"

(***************************************************************************)
(* C18.  The methods the HTTP proxy does not handle.                       *)
(***************************************************************************)
\* The request passes authentication, or none is required.
AuthPassed ==
    ~HTTPCredentialsSet \/ ClaimedStatus(req[1].ProxyAuthorization) = StatusNone

\* serve is past its switch on the method.
Switched == Authenticated /\ AuthPassed /\ spc # "method"

\* C18: an authenticated request whose method is neither CONNECT nor GET is
\* answered with 405 Method Not Allowed; nothing is dialed for it, no relay
\* task is started, and the client connection is closed once serve has
\* returned.
C18_OtherMethods405 ==
    (Switched /\ req[1].Method \notin {"CONNECT", "GET"})
        => /\ conn[1].written = <<[status |-> StatusMethodNotAllowed, header |-> <<>>]>>
           /\ Untouched
           /\ spc \in {"returned", "closed"}
           /\ spc = "closed" => conn[1].closed

\* A POST with the matching pair has got its 405 and the connection is
\* closed.
C18_Witness ==
    /\ Switched /\ HTTPCredentialsSet /\ req[1].Method = "POST"
    /\ conn[1].written = <<[status |-> StatusMethodNotAllowed, header |-> <<>>]>>
    /\ spc = "closed" /\ conn[1].closed

\* serve has returned and the connection is not closed yet.
C18_WitnessReturned ==
    /\ Switched /\ ~HTTPCredentialsSet /\ req[1].Method = "POST"
    /\ spc = "returned" /\ ~conn[1].closed

\* With the tasks scheduled, the connection of such a request is closed in
\* the end.
C18_ClosedInTheEnd ==
    (Authenticated /\ AuthPassed /\ req[1].Method \notin {"CONNECT", "GET"})
        ~> (spc = "closed" /\ conn[1].closed)

(***************************************************************************)
(* C19.  CONNECT: the dial, then the 200 line.                             *)
(***************************************************************************)
Connect == Switched /\ req[1].Method = "CONNECT"

\* The host carries a port: it ends with a colon and the port.
CarriesPort(host) == Len(host) >= 3 /\ host[Len(host) - 1] = Colon

\* host:port, with port 443 for a host that carries none.
ClaimedConnectAddr(host) ==
    IF CarriesPort(host) THEN host ELSE host \o <<Colon, "443">>

Has200 ==
    \E i \in 1..Len(conn[1].written) : conn[1].written[i].status = Established

DialFailed == dials # <<>> /\ peerConn = NilPtr

\* What holds of a CONNECT request whatever its host: the 200 line is
\* written only with the peer dialed; after a failed dial there is no 200
\* line and no relay; after a failed write of the 200 line the peer is
\* closed and there is no relay.
ConnectOrder ==
    /\ Has200 => (Len(dials) = 1 /\ peerConn # NilPtr)
    /\ spc = "handleConn" => (dials = <<>> /\ ~Has200)
    /\ DialFailed => (~Has200 /\ relay = <<>> /\ spc \in {"returned", "closed"})
    /\ (peerConn # NilPtr /\ ~Has200 /\ spc \in {"returned", "closed"})
          => (peerConn[1].closed /\ relay = <<>>)
    /\ relay # <<>> => Has200

\* C19: for a CONNECT request the proxy first dials host:port through the
\* tunnel, with port 443 when the host carries none, and writes the 200
\* line only after the dial has succeeded; after a failed dial no 200 line
\* is written and no relay starts, and after a failed write of the 200 line
\* the peer is closed and no relay starts.
C19_ConnectDialThen200 ==
    Connect
        => /\ dials # <<>> => dials = <<ClaimedConnectAddr(req[1].Host)>>
           /\ ConnectOrder

\* CONNECT to a bracketed IPv6 address without a port: the address is
\* dialed as it is, without a port.
C19_Witness ==
    /\ Connect /\ req[1].Host = <<"[", Addr6lower, "]">>
    /\ dials = <<<<"[", Addr6lower, "]">>>>

\* C19 for the hosts that are names: holds.
C19_ConnectToNames ==
    (Connect /\ req[1].Host[1] = "example.com")
        => /\ dials # <<>> => dials = <<ClaimedConnectAddr(req[1].Host)>>
           /\ ConnectOrder

\* The 200 line is written in a step that starts with the peer dialed.
C19_200AfterDial ==
    [][(Connect /\ ~Has200 /\ Has200') => (peerConn # NilPtr /\ Len(dials) = 1)]_vars

C19_WitnessDefaultPort ==
    /\ Connect /\ req[1].Host = <<"example.com">>
    /\ dials = <<<<"example.com", Colon, "443">>>> /\ Has200 /\ relay # <<>>

C19_WitnessDialFailed ==
    /\ Connect /\ DialFailed /\ spc = "closed" /\ conn[1].written = <<>>

C19_WitnessWriteFailed ==
    /\ Connect /\ peerConn # NilPtr /\ peerConn[1].closed /\ ~Has200
    /\ relay = <<>> /\ spc = "returned"

(***************************************************************************)
(* C20.  The end of a relay.                                               *)
(***************************************************************************)
Relaying == HTTP /\ spc = "wait"

TornDown ==
    /\ relay = [toConn |-> "done", toPeer |-> "done"]
    /\ conn[1].closed /\ peerConn[1].closed
    /\ spc \in {"returned", "closed"}

\* C20: once a relay is established, the closing of either side, the
\* client's or the peer's, tears it down: in the end both relay tasks have
\* finished, both connections are closed and serve has returned, even with
\* the other side open and silent.
C20_EitherCloseTearsDown ==
    (Relaying /\ (conn[1].eof \/ peerConn[1].eof)) ~> TornDown

\* The client has closed and the peer is open and silent: the task that
\* reads the peer is blocked in Read, and serve in wg.Wait.
C20_Witness ==
    /\ Relaying /\ conn[1].eof
    /\ ~peerConn[1].eof /\ ~peerConn[1].pending
    /\ relay = [toConn |-> "running", toPeer |-> "done"]
    /\ ~conn[1].closed /\ ~peerConn[1].closed

\* The same with the peer silent: after the client's close the relay is torn
\* down unless the peer sends or closes.  It is not: serve waits for the
\* task that reads the peer, and nothing closes the peer to end its Read.
C20_SilentPeerTearsDown ==
    (Relaying /\ conn[1].eof)
        ~> (TornDown \/ (peerConn # NilPtr /\ (peerConn[1].eof \/ peerConn[1].pending)))

\* With both sides closed the relay is torn down.
C20_BothClosedTearsDown ==
    (Relaying /\ conn[1].eof /\ peerConn[1].eof) ~> TornDown

\* serve closes nothing while a relay task runs.
C20_NoCloseWhileRelaying ==
    Relaying => (~conn[1].closed /\ ~peerConn[1].closed)

(***************************************************************************)
(* The claims about main, its listener tasks and the prober.               *)
(***************************************************************************)

\* The listener tasks of the routines: ListenAndServe and the SOCKS5
\* SpawnRoutine.
ListenerTasks == {i \in 1..Len(tasks) : tasks[i].kind \in {"http", "socks5"}}

Cancelled == ctx = "cancelled"

\* The listener task i has returned, its accept loop with it, and its
\* listener is not open.
Stopped(i) ==
    /\ tasks[i].pc = "returned"
    /\ tasks[i].accept # "Accept"
    /\ tasks[i].listener # "open"

\* The routines have been spawned and every listener task has stopped, or
\* the process is gone and its tasks with it.
ListenersStopped ==
    \/ exit # "running"
    \/ mpc = "Done" /\ \A i \in ListenerTasks : Stopped(i)

\* A closed listener stays closed and accepts nothing.
NoAcceptAfterClose ==
    \A i \in ListenerTasks :
        (i \in 1..Len(tasks') /\ tasks[i].listener = "closed")
            => (tasks'[i].listener = "closed"
                /\ tasks'[i].accepted = tasks[i].accepted)

C21_ListenersClosed ==
    (Cancelled /\ mpc = "Done")
        ~> (exit # "running" \/ \A i \in ListenerTasks : tasks[i].listener # "open")

\* The stages of lock, in the order of their width.
StageNames == <<"boot", "boot-daemon", "read-config", "ready">>

Rank(stage) == CHOOSE k \in 1..Len(StageNames) : StageNames[k] = stage

\* The stages the process has applied, in the order it applied them.
Stages == SelectSeq(effects, LAMBDA e : \E k \in 1..Len(StageNames) : StageNames[k] = e)

Applied(e) == \E k \in 1..Len(effects) : effects[k] = e

\* The process did a and later b.
Before(a, b) ==
    \E i, j \in 1..Len(effects) : i < j /\ effects[i] = a /\ effects[j] = b

\* -d is among the arguments.
DaemonFlagGiven == \E k \in 1..Len(args) : args[k] = <<"-d">>

\* The stages are applied forward, each at most once, boot first; ready
\* after the configuration is parsed and the network allowlist installed,
\* and before the tunnel, the routines, the prober and the health server;
\* a failed reduction has ended the process.
ForwardOnly ==
    /\ \A k \in 1..(Len(Stages) - 1) : Rank(Stages[k]) < Rank(Stages[k + 1])
    /\ Stages # <<>> => Stages[1] = "boot"
    /\ (exit = "running" /\ mpc # "boot") => Applied("boot")
    /\ Applied("ready") => Before("ParseConfig", "ready") /\ Before("lockNetwork", "ready")
    /\ \A e \in {"StartWireguard", "SpawnRoutine", "StartPingIPs"} :
          Applied(e) => Before("ready", e)
    /\ ~Applied("ready") => tasks = <<>> /\ prober.pc = "off"
    /\ exit = "fatal" => mpc = "exit" /\ tasks = <<>> /\ prober.pc = "off"

C26_WitnessChild ==
    /\ Stages = <<"boot", "boot-daemon", "ready">>
    /\ Len(execs) = 1 /\ execs[1].running
    /\ Applied("StartPingIPs")

\* After a failed reduction (log.Fatal) the process takes no step.
C26_FatalEnds ==
    [][exit = "fatal" => UNCHANGED <<effects, tasks, prober, execs, mpc, exit>>]_vars

\* The flags are parsed and -n is among them.
ConfigTestMode == flags # NilPtr /\ flags[1].configTest

\* Nothing of what follows the configtest return has happened.
OnlyChecked ==
    /\ ~Applied("lockNetwork") /\ ~Applied("ready") /\ ~Applied("exec")
    /\ ~Applied("StartWireguard") /\ ~Applied("SpawnRoutine")
    /\ ~Applied("StartPingIPs")
    /\ execs = <<>> /\ tasks = <<>> /\ prober.pc = "off" /\ request = <<>>

\* C27: in configtest mode (-n), after the configuration parses the
\* process prints "Config OK" and terminates without the network allowlist,
\* the ready stage, the re-execution, the tunnel or any routine; when
\* parsing fails it terminates with a failure and prints no "Config OK".
C27_ConfigTestOnlyChecks ==
    /\ ConfigTestMode =>
          /\ OnlyChecked
          /\ Applied("ParseConfig") =>
                (err = NoError /\ Applied("Config OK") /\ exit = "returned")
          /\ err # NoError => (exit = "fatal" /\ ~Applied("Config OK"))
          /\ mpc \in {"read-config", "ParseConfig", "exit"}
    /\ Applied("Config OK") => ConfigTestMode

\* wireproxy -n -c wg.conf: "Config OK", and the process has returned.
C27_Witness ==
    /\ ConfigTestMode /\ flags[1].config = <<"wg.conf">>
    /\ effects = <<"boot", "read-config", "ParseConfig", "Config OK">>
    /\ exit = "returned" /\ device.SecretKey # ""

\* wireproxy -n -c bad.conf: log.Fatal of the parse error.
C27_WitnessParseFails ==
    /\ ConfigTestMode /\ flags[1].config = <<"bad.conf">>
    /\ err = ErrOneInterface /\ exit = "fatal"

\* wireproxy -d -n -c wg.conf: "Config OK" without a child.
C27_WitnessDaemonFlag ==
    /\ ConfigTestMode /\ flags[1].daemon
    /\ Applied("Config OK") /\ exit = "returned"

\* The process has passed the daemon step of main.
PastDaemonStep == Applied("lockNetwork") /\ mpc # "daemon"

\* Nothing of the tunnel has been started by this process.
NoTunnel ==
    /\ ~Applied("ready") /\ ~Applied("StartWireguard") /\ ~Applied("SpawnRoutine")
    /\ tasks = <<>> /\ prober.pc = "off" /\ request = <<>>

\* C28: with -d a process that is not the daemon child starts itself once,
\* the daemon-process sentinel as argv[1], and returns without the tunnel
\* or a routine; a process started with the sentinel never starts itself
\* again, -d still among its arguments, and is the one that starts the
\* tunnel: the chain of re-executions has length one.
C28_ReexecOnce ==
    /\ Len(execs) <= 1
    /\ \A k \in 1..Len(execs) :
          /\ execs[k].argv[1] = daemonProcess
          /\ \E d \in 2..Len(execs[k].argv) : execs[k].argv[d] = <<"-d">>
          /\ Tail(execs[k].argv) # <<>> /\ Tail(execs[k].argv)[1] # daemonProcess
    /\ (DaemonFlagGiven /\ ~isDaemonProcess /\ PastDaemonStep) =>
          /\ Len(execs) = 1 /\ execs[1].argv = <<daemonProcess>> \o args
          /\ Applied("exec") /\ exit = "returned"
          /\ NoTunnel
    /\ isDaemonProcess =>
          /\ ~Applied("exec")
          /\ \A k \in 1..Len(execs) : execs[k].running /\ execs[k].argv = args
    /\ (DaemonFlagGiven /\ Applied("StartWireguard")) => isDaemonProcess
    /\ (~DaemonFlagGiven /\ ~isDaemonProcess) => execs = <<>>

\* wireproxy -d -c wg.conf: the child, started once, has started the tunnel
\* and its routines.
C28_Witness ==
    /\ Len(execs) = 1 /\ execs[1].running
    /\ args = <<daemonProcess, <<"-c">>, <<"wg.conf">>, <<"-d">>>>
    /\ Applied("StartWireguard") /\ Len(tasks) = 2
    /\ flags[1].daemon = FALSE

\* The parent of that child, returned.
C28_WitnessParent ==
    /\ args = <<<<"-c">>, <<"wg.conf">>, <<"-d">>>>
    /\ Len(execs) = 1 /\ ~execs[1].running
    /\ exit = "returned" /\ NoTunnel

\* net.Listen of a routine's task failed.
BindFailed == \E i \in ListenerTasks : tasks[i].ret = PtrTo(ErrBind)

\* The process has ended with a non-zero exit: log.Fatal or a panic.
ExitedNonZero == exit \in {"fatal", "panic"}

\* C29: when a routine, HTTP or SOCKS5, cannot bind its listener address,
\* the error ends the process with a non-zero exit: the supervisor does not
\* keep running with a routine that failed to bind.
C29_BindFailureEndsProcess ==
    BindFailed ~> ExitedNonZero

\* The SOCKS5 routine could not bind; its task has returned the error, the
\* HTTP routine serves, and main waits for the signal.
C29_Witness ==
    /\ tasks # <<>> /\ tasks[1].kind = "socks5"
    /\ tasks[1].ret = PtrTo(ErrBind) /\ tasks[1].pc = "returned"
    /\ tasks[2].listener = "open" /\ tasks[2].accepted = 1
    /\ mpc = "Done" /\ exit = "running" /\ ctx = "live"

\* The error of a routine's task never ends the process: it ends by a
\* failure of main's own steps, by the health server's panic, or it returns.
C29_BindErrorDropped ==
    [][(BindFailed /\ exit = "running" /\ exit' # "running")
          => (exit' = "returned" \/ \E i \in 1..Len(tasks) : tasks[i].kind = "info")]_vars

\* After the signal such a process returns from main: exit status 0.
C29_WitnessReturned ==
    /\ BindFailed /\ exit = "returned" /\ mpc = "exit"

\* C30: after the context is cancelled the prober stops at the next tick
\* boundary: when its sleep ends with the context cancelled, no further
\* call of pingIPs starts and no ping socket is opened.
C30_ProberStopsAtTick ==
    [][(Cancelled /\ prober.pc = "Sleep") => prober'.pc # "pingIPs"]_vars

\* The context is cancelled, main has not returned yet, and the prober has
\* come back from its sleep and called pingIPs again.
C30_Witness ==
    /\ Cancelled /\ exit = "running" /\ mpc = "Done"
    /\ prober = [pc |-> "pingIPs", late |-> TRUE]

\* What does stop the prober is the end of the process.
C30_ProberRunsWhileProcessRuns ==
    [][(prober.pc # "off" /\ prober'.pc = "off") => exit = "returned"]_vars

(***************************************************************************)
(* The claims about the health endpoint.                                   *)
(***************************************************************************)

\* ServeHTTP has answered a GET /readyz.
ReadyzAnswered == resp # NilPtr /\ resp[1].path = "/readyz" /\ hpc = "idle"

\* The age of the entry of t when the handler looked at it: now minus its
\* last-pong time, in ticks.
Age(t) == resp[1].at - resp[1].seen[t] * TicksPerSecond

\* CheckAliveInterval + 2 seconds, in ticks.
MaxAge == (Small(device.CheckAliveInterval) + 2) * TicksPerSecond

\* C22: GET /readyz answers 200 exactly when every entry of PingRecord has
\* an age of at most CheckAliveInterval + 2 seconds and 503 as soon as one
\* is older; 503 for a target whose entry is still 0, and 200 when there
\* are no CheckAlive targets.
C22_ReadyzByAge ==
    ReadyzAnswered =>
        /\ resp[1].status = StatusOK
              <=> \A t \in Targets(device) : Age(t) <= MaxAge
        /\ resp[1].status = StatusServiceUnavailable
              <=> \E t \in Targets(device) : Age(t) > MaxAge
        /\ (\E t \in Targets(device) : resp[1].seen[t] = 0)
              => resp[1].status = StatusServiceUnavailable
        /\ Targets(device) = {} => resp[1].status = StatusOK
        /\ DOMAIN resp[1].seen = Targets(device)
        /\ DOMAIN resp[1].body = Targets(device)

\* Two targets, one has replied just now and the other never: 503.
C22_Witness ==
    /\ ReadyzAnswered /\ resp[1].status = StatusServiceUnavailable
    /\ \E t, u \in Targets(device) :
          /\ resp[1].seen[t] = 0
          /\ resp[1].seen[u] # 0 /\ Age(u) <= MaxAge

\* One target, its entry exactly CheckAliveInterval + 2 seconds old: 200.
C22_WitnessAtLimit ==
    /\ ReadyzAnswered /\ resp[1].status = StatusOK
    /\ \E t \in Targets(device) : Age(t) = MaxAge

\* One target that has replied, its entry one tick older than that: 503.
C22_WitnessStale ==
    /\ ReadyzAnswered /\ resp[1].status = StatusServiceUnavailable
    /\ \A t \in Targets(device) : resp[1].seen[t] # 0 /\ Age(t) = MaxAge + 1

\* No CheckAlive targets: 200.
C22_WitnessNoTargets ==
    /\ ReadyzAnswered /\ Targets(device) = {}
    /\ resp[1].status = StatusOK

\* The reply task of t has written its record, the handler has read that
\* record, and it did so within one probe period, CheckAliveInterval
\* seconds, of the reply.
WithinPeriod(t) ==
    /\ replies[t].at # 0
    /\ resp[1].seen[t] = Unix(replies[t].at)
    /\ resp[1].at >= replies[t].at
    /\ resp[1].at - replies[t].at <= Small(device.CheckAliveInterval) * TicksPerSecond

\* C23: after a successful probe reply, a /readyz request made within one
\* probe period of that reply returns 200.
C23_ReadyAfterReply ==
    (ReadyzAnswered /\ \E t \in Targets(device) : WithinPeriod(t))
        => resp[1].status = StatusOK

\* C23 as the code has it: within one probe period of the reply of t the
\* entry of t is younger than CheckAliveInterval + 2 seconds, and /readyz
\* returns 200 unless the entry of another target is older than that; it
\* returns 200 when every target has replied within the period.
C23_ReadyUnlessOtherStale ==
    ReadyzAnswered =>
        \A t \in Targets(device) :
            WithinPeriod(t) =>
                /\ Age(t) < MaxAge
                /\ resp[1].status = StatusOK
                      <=> \A u \in Targets(device) \ {t} : Age(u) <= MaxAge
                /\ (\A u \in Targets(device) : WithinPeriod(u))
                      => resp[1].status = StatusOK

\* Two targets: one has just replied, the other never has; 503.
C23_Witness ==
    /\ ReadyzAnswered /\ resp[1].status = StatusServiceUnavailable
    /\ \E t, u \in Targets(device) :
          /\ WithinPeriod(t) /\ resp[1].at = replies[t].at
          /\ replies[u].at = 0 /\ resp[1].seen[u] = 0

\* One target, asked a whole probe period after its reply: 200.
C23_WitnessOneTarget ==
    /\ ReadyzAnswered /\ resp[1].status = StatusOK
    /\ \E t \in Targets(device) :
          /\ Targets(device) = {t} /\ WithinPeriod(t)
          /\ resp[1].at - replies[t].at = Small(device.CheckAliveInterval) * TicksPerSecond
          /\ replies[t].at % TicksPerSecond = 1

\* ServeHTTP has answered a GET /metrics with the device's lines.
MetricsAnswered ==
    resp # NilPtr /\ resp[1].path = "/metrics" /\ resp[1].status = StatusOK

RECURSIVE TextLines(_)
\* The lines of a text, each closed by a newline; what follows the last
\* newline is a line too when it is not empty.
TextLines(text) ==
    IF text = <<>> THEN <<>>
    ELSE IF \A i \in 1..Len(text) : text[i] # Newline THEN <<text>>
    ELSE LET i == CHOOSE k \in 1..Len(text) :
                      text[k] = Newline /\ \A j \in 1..(k - 1) : text[j] # Newline
         IN  <<SubSeq(text, 1, i - 1)>> \o TextLines(SubSeq(text, i + 1, Len(text)))

\* The key and the value of a key=value line: what stands before and after
\* its first "=".
EqualsAt(line) ==
    CHOOSE k \in 1..Len(line) : line[k] = Equals /\ \A j \in 1..(k - 1) : line[j] # Equals
KeyOf(line) == SubSeq(line, 1, EqualsAt(line) - 1)
ValueOf(line) == SubSeq(line, EqualsAt(line) + 1, Len(line))

SecretKeys == {<<"private_key">>, <<"preshared_key">>}

\* C24: for every UAPI get response of the device, the body of GET /metrics
\* has no line with key private_key or preshared_key whose value is not the
\* literal REDACTED, and every other key=value line of the response appears
\* with its key and value unchanged, in the same order.
C24_MetricsRedacted ==
    MetricsAnswered =>
        LET given == TextLines(resp[1].get)
            shown == TextLines(resp[1].body)
        IN  /\ Len(shown) = Len(given)
            /\ Len(given) = Len(request)
            /\ \A k \in 1..Len(shown) :
                  /\ KeyOf(shown[k]) = KeyOf(given[k])
                  /\ KeyOf(given[k]) = <<request[k][1]>>
                  /\ IF KeyOf(shown[k]) \in SecretKeys
                     THEN ValueOf(shown[k]) = <<Redacted>>
                     ELSE /\ ValueOf(shown[k]) = ValueOf(given[k])
                          /\ ValueOf(shown[k]) = request[k][2]

\* A private key and a preshared key among the lines, and both redacted.
C24_Witness ==
    /\ MetricsAnswered
    /\ request = <<<<"private_key", <<"aa11">>>>, <<"preshared_key", <<"cc33">>>>>>
    /\ resp[1].body = <<"private_key", Equals, Redacted, Newline,
                        "preshared_key", Equals, Redacted, Newline>>

\* A value that holds "=" is kept whole, and a key that only begins like
\* private_key is not redacted.
C24_WitnessOtherLines ==
    /\ MetricsAnswered
    /\ request = <<<<"i1", <<"<b 0x", Equals, Equals, ">">>>>,
                   <<"private_key_x", <<Redacted>>>>>>
    /\ resp[1].body = resp[1].get

\* C25: every access to PingRecord, once the prober and the health endpoint
\* run, is made with PingRecordLock held: the reads of the /readyz handler
\* and the writes of the reply tasks exclude one another, so that no read
\* of the map is concurrent with a write.
C25_PingRecordUnderLock ==
    /\ Reading => PingRecordLock = "ServeHTTP"
    /\ \A t \in DOMAIN replies : replies[t].pc = "write" => PingRecordLock = t
    /\ ~(Reading /\ Writing)

\* ServeHTTP is inside json.Marshal(d.PingRecord) while a reply task, the
\* lock in its hand, writes the map.
C25_Witness ==
    /\ exit = "running"
    /\ hpc = "Marshal"
    /\ \E t \in DOMAIN replies : replies[t].pc = "write" /\ PingRecordLock = t

\* What the lock does give: the writers hold it, one at a time.
C25_WritersExclusive ==
    /\ \A t \in DOMAIN replies : replies[t].pc = "write" <=> PingRecordLock = t
    /\ \A t, u \in DOMAIN replies :
          (replies[t].pc = "write" /\ replies[u].pc = "write") => t = u

\* The runtime has found the concurrent access and ended the process.
C25_WitnessFatal ==
    /\ exit = "fatal" /\ Reading /\ Writing

(***************************************************************************)
(* C31.  The two relay tasks of serve.                                     *)
(***************************************************************************)
\* serve has started its relay tasks.
RelayTasks == IF relay = <<>> THEN {} ELSE DOMAIN relay
TaskCopies(name) == relay # <<>> /\ relay[name] = "running"

\* handleConn or handle gave serve a peer: the dial succeeded, and the 200
\* line went to the client or the request to the peer.
Forwarded ==
    /\ peerConn # NilPtr /\ dials # <<>>
    /\ IF req[1].Method = "CONNECT" THEN Has200
       ELSE peerConn[1].written = <<req[1]>>

\* C31: for a connection of the HTTP proxy, serve starts its relay tasks
\* only after a dial that succeeded and a forwarding that succeeded, and
\* then exactly two, peer-to-client and client-to-peer; while one of them
\* still copies neither socket is closed by serve, and when serve has closed
\* them both tasks have finished; after a failed dial or a failed forwarding
\* no relay task is started.
C31_TwoRelayTasksJoined ==
    HTTP =>
        /\ RelayTasks \in {{}, {"toConn", "toPeer"}}
        /\ RelayTasks # {} => Forwarded
        /\ (TaskCopies("toConn") \/ TaskCopies("toPeer"))
              => (spc = "wait" /\ ~conn[1].closed /\ ~peerConn[1].closed)
        /\ (RelayTasks # {} /\ spc \in {"returned", "closed"})
              => /\ relay = [toConn |-> "done", toPeer |-> "done"]
                 /\ conn[1].closed /\ peerConn[1].closed
        /\ (spc \in {"returned", "closed"} /\ req # NilPtr /\ ~Forwarded)
              => RelayTasks = {}

\* serve is in wg.Wait with one task done and the other copying, and both
\* sockets open.
C31_Witness ==
    /\ HTTP /\ spc = "wait" /\ Forwarded
    /\ relay = [toConn |-> "done", toPeer |-> "running"]
    /\ peerConn[1].eof /\ ~conn[1].closed /\ ~peerConn[1].closed

\* Both tasks have finished and serve has closed both sockets.
C31_WitnessJoined ==
    /\ HTTP /\ spc = "returned" /\ Forwarded
    /\ relay = [toConn |-> "done", toPeer |-> "done"]
    /\ conn[1].closed /\ peerConn[1].closed

\* The dial failed / the forwarding failed: serve has returned with no
\* relay task.
C31_WitnessDialFailed ==
    HTTP /\ DialFailed /\ spc = "returned" /\ RelayTasks = {}

C31_WitnessForwardFailed ==
    /\ HTTP /\ req # NilPtr /\ req[1].Method = "GET" /\ peerConn # NilPtr
    /\ peerConn[1].closed /\ peerConn[1].written = <<>>
    /\ spc = "returned" /\ RelayTasks = {}

(***************************************************************************)
(* C32.  What writes PingRecord.                                           *)
(***************************************************************************)
PingStarted == prober.pc # "off"

\* The k-th ping holds a reply whose sequence number and payload are those
\* of its own request.
MatchingReply(k) ==
    /\ replies[k].read # NilPtr
    /\ replies[k].read[1].Seq = replies[k].request.Seq
    /\ replies[k].read[1].Data = replies[k].request.Data

\* The reply task of the k-th ping writes the record of t in this step.
RecordedBy(k, t) ==
    /\ replies[k].pc = "write" /\ replies[k].addr.ip = t
    /\ MatchingReply(k)
    /\ PingRecord' = [PingRecord EXCEPT ![t] = Unix(clock)]

\* A step after StartPingIPs that changes the table is the write of a reply
\* task with a matching reply, sets that target's record to the Unix time
\* and lowers no record.
OnlyMatchingRepliesRecord ==
    (PingStarted /\ PingRecord' # PingRecord)
        => /\ \E k \in 1..Len(replies) : \E t \in DOMAIN PingRecord :
                 RecordedBy(k, t)
           /\ \A t \in DOMAIN PingRecord : PingRecord'[t] >= PingRecord[t]

\* A ping that failed, at its write, its read or a check of the reply.
Failed(k) ==
    replies[k].pc = "none" \/ (replies[k].pc = "returned" /\ replies[k].socket = "open")

\* C32: from StartPingIPs on the keys of PingRecord are the CheckAlive
\* addresses; the record of a target is 0 until a reply task of that target
\* has read a reply with the sequence number and the payload of its request;
\* only the write of such a task changes the table, to the Unix time of the
\* write, so that a ping that fails at its dial, write, read, parse or match
\* changes nothing; and no record decreases.
C32_RecordOnlyByMatchingReply ==
    /\ [](PingStarted =>
            /\ DOMAIN PingRecord = Targets(device)
            /\ \A t \in DOMAIN PingRecord :
                  PingRecord[t] # 0 =>
                      \E k \in 1..Len(replies) :
                          /\ replies[k].addr.ip = t /\ MatchingReply(k)
                          /\ replies[k].socket = "closed")
    /\ [][OnlyMatchingRepliesRecord]_vars

\* The IPv6 target has its record written by a matching reply, and a ping
\* of the IPv4 target has failed and left its record 0.
C32_Witness ==
    /\ PingStarted /\ Len(replies) = 2
    /\ Failed(1) /\ replies[1].addr.is4 /\ PingRecord[replies[1].addr.ip] = 0
    /\ ~replies[2].addr.is4 /\ MatchingReply(2) /\ replies[2].pc = "returned"
    /\ PingRecord[replies[2].addr.ip] = Unix(clock) /\ clock > Epoch + 2

\* The second ping of a target writes a later time than the first did.
C32_WitnessLater ==
    /\ Len(replies) = 2 /\ replies[1].addr = replies[2].addr
    /\ MatchingReply(1) /\ replies[1].pc = "returned"
    /\ replies[2].pc = "write"
    /\ PingRecord[replies[1].addr.ip] < Unix(clock)
    /\ PingRecord[replies[1].addr.ip] > 0

(***************************************************************************)
(* C40.  The ping sockets.                                                 *)
(***************************************************************************)
SocketOpen(k) == k \in 1..Len(replies) /\ replies[k].socket = "open"
SocketClosed(k) == k \in 1..Len(replies) /\ replies[k].socket = "closed"

\* The socket of the k-th ping is open and no task is left that holds it:
\* pingIPs has gone on to its next round and the reply task, if one was
\* started, has returned.
Leaked(k) ==
    SocketOpen(k) /\ replies[k].pc \in {"none", "returned"}

\* C40: every ping socket a round of pingIPs opened is closed in the end,
\* after the record was written and after every failure: of the write, of
\* the read (the deadline has passed), of the parse, of the check of the
\* reply type and of the match.
C40_PingSocketsClosed ==
    \A k \in ProbeIds : SocketOpen(k) ~> SocketClosed(k)

\* Two pings have failed, one at its write and one in its reply task, and
\* both sockets are open with no task to close them.
C40_Witness ==
    /\ Len(replies) = 2
    /\ Leaked(1) /\ replies[1].pc = "none"
    /\ Leaked(2) /\ replies[2].pc = "returned"

\* The socket of a ping whose reply was accepted is closed in the end: the
\* deferred Close is registered after the record was written.
C40_AcceptedPingClosed ==
    \A k \in ProbeIds :
        (k \in 1..Len(replies) /\ replies[k].pc = "Lock") ~> SocketClosed(k)

\* A socket that leaked stays open.
C40_LeakedStaysOpen ==
    \A k \in ProbeIds : [](Leaked(k) => []Leaked(k))

(***************************************************************************)
(* C33.  The order of the queries of Resolve.                              *)
(***************************************************************************)
ResolveReturned == spc = "returned" /\ resp # NilPtr
NoDNS == Len(device.DNS) = 0

\* The i-th call of queryDNS gave an address.
Yielded(i) == dials[i].err = NoError /\ dials[i].ip # NilPtr

\* Resolve returned the address of its A query.
ReturnedFromA ==
    ResolveReturned /\ Len(dials) = 1 /\ resp[1].err = NoError

\* Without a DNS server Resolve fails and asks nothing; with one, its first
\* query is the A query for the name, to the first DNS server; an address of
\* the A query is returned with no AAAA query made; the AAAA query comes only
\* after an A query that failed or had no record; and with both failed
\* Resolve returns an error.
QueriesInOrder ==
    /\ NoDNS => (dials = <<>> /\ resp[1] = [ip |-> NilPtr, err |-> ErrNoDNSServers])
    /\ ~NoDNS =>
          /\ Len(dials) \in {1, 2}
          /\ dials[1].qtype = TypeA
          /\ dials[1].address[1] = device.DNS[1].ip
          /\ dials[1].name = absoluteName(req[1].name)
          /\ Yielded(1) => (Len(dials) = 1 /\ resp[1] = [ip |-> dials[1].ip,
                                                        err |-> NoError])
          /\ Len(dials) = 2 =>
                /\ ~Yielded(1)
                /\ dials[2].qtype = TypeAAAA
                /\ dials[2].address = dials[1].address
                /\ dials[2].name = dials[1].name
                /\ Yielded(2) => resp[1] = [ip |-> dials[2].ip, err |-> NoError]
                /\ ~Yielded(2) => resp[1] = [ip |-> NilPtr, err |-> ErrNoRecords]

\* C33: Resolve fails without a query when no DNS server is configured;
\* otherwise the A query goes first, to the first DNS server, and its address
\* is returned without an AAAA query; the AAAA query is made only after the A
\* query failed or had no record; an error is returned when both fail; and
\* the address returned from the A query is an IPv4 address.
C33_AFirstAndIPv4 ==
    ResolveReturned =>
        /\ QueriesInOrder
        /\ ReturnedFromA => resp[1].ip[1].is4

\* The answer to the A query began with an AAAA record, and Resolve
\* returned its IPv6 address from the A step.
C33_Witness ==
    /\ ReturnedFromA /\ dials[1].qtype = TypeA /\ dials[1].sent
    /\ ~resp[1].ip[1].is4

\* The order of the queries alone: holds.
C33_QueriesInOrder == ResolveReturned => QueriesInOrder

C33_WitnessFallback ==
    /\ ResolveReturned /\ Len(dials) = 2 /\ dials[1].sent /\ dials[2].sent
    /\ dials[1].err = ErrNoMatchingRecords
    /\ resp[1].err = NoError /\ ~resp[1].ip[1].is4

C33_WitnessBothFail ==
    /\ ResolveReturned /\ Len(dials) = 2 /\ dials[1].sent /\ dials[2].sent
    /\ resp[1].err = ErrNoRecords

C33_WitnessNoDNS ==
    ResolveReturned /\ NoDNS /\ dials = <<>>

(***************************************************************************)
(* C34.  The address the resolver dials.                                   *)
(***************************************************************************)
\* The address is host:port as net.SplitHostPort takes it, the host is the
\* server and the port is 53.
HostPort53(addr, dnsAddr) ==
    /\ SplitHostPort(addr).err = NoError
    /\ SplitHostPort(addr).host = dnsAddr.ip
    /\ SplitHostPort(addr).port = "53"

\* C34: whatever the first DNS server, an IPv4 or an IPv6 address, every
\* address the resolver dials is that server with a port: ":53" is appended
\* to a server without one, and the dialed address is a valid host:port with
\* the port 53.
C34_DialsServerPort53 ==
    \A i \in 1..Len(dials) : HostPort53(dials[i].address, device.DNS[1])

\* The first DNS server is an IPv6 address: what is dialed is the bare
\* address, and the dial fails before anything is sent.
C34_Witness ==
    /\ dials # <<>> /\ ~device.DNS[1].is4
    /\ dials[1].address = <<device.DNS[1].ip>>
    /\ dials[1].err = ErrMissingPort /\ ~dials[1].sent

\* For an IPv4 server the claim holds.
C34_IPv4ServerPort53 ==
    \A i \in 1..Len(dials) :
        device.DNS[1].is4 => HostPort53(dials[i].address, device.DNS[1])

C34_WitnessIPv4 ==
    /\ dials # <<>> /\ device.DNS[1].is4
    /\ dials[1].address = <<device.DNS[1].ip, Colon, "53">> /\ dials[1].sent

\* With an IPv6 server first no name is ever resolved.
C34_IPv6ServerNeverResolves ==
    (ResolveReturned /\ ~NoDNS /\ ~device.DNS[1].is4) => resp[1].err = ErrNoRecords

(***************************************************************************)
(* C35.  The list values.                                                  *)
(***************************************************************************)
\* The comma-separated elements of a value, trimmed, without the empty ones.
NonEmptyElements(text) ==
    SelectSeq([i \in 1..Len(Split(text)) |-> TrimSpace(Split(text)[i])],
              LAMBDA e : e # <<>>)

InterfaceParsed == pc \in {"done", "parsed"} /\ err = NoError /\ OneSection
PeersParsed == pc = "parsed" /\ err = NoError /\ Len(device.Peers) = 1

\* The addresses the elements of a value denote; an element is an address
\* or a prefix, of which the address is taken.
AddressesOf(text) ==
    [i \in 1..Len(NonEmptyElements(text)) |-> AddrOf(NonEmptyElements(text)[i][1])]

PrefixesOf(text) ==
    [i \in 1..Len(NonEmptyElements(text)) |-> ParsePrefix(NonEmptyElements(text)[i]).val]

\* DNS, Address, CheckAlive and AllowedIPs hold the non-empty elements of
\* their values, in order.
AddressListsSkipEmpty ==
    /\ InterfaceParsed =>
          /\ device.DNS = AddressesOf(KeyString(Sec, "dns"))
          /\ device.Endpoint = AddressesOf(KeyString(Sec, "address"))
          /\ device.CheckAlive = AddressesOf(KeyString(Sec, "checkalive"))
    /\ PeersParsed =>
          device.Peers[1].AllowedIPs
              = PrefixesOf(KeyString(cfg["peer"][1], "allowedips"))

\* C35: after a parse without error each of DNS, Address, AllowedIPs,
\* BlockedDomains and CheckAlive holds exactly the non-empty, trimmed
\* elements of its comma-separated value, in their order; an empty element,
\* as a closing comma or ",," makes one, is in none of them.
C35_ListsSkipEmptyElements ==
    /\ AddressListsSkipEmpty
    /\ InterfaceParsed =>
          device.BlockedDomains = NonEmptyElements(KeyString(Sec, "blockeddomains"))

\* BlockedDomains = "ads.example," is parsed to two domains, the second one
\* empty.
C35_Witness ==
    /\ InterfaceParsed
    /\ KeyString(Sec, "blockeddomains") = <<"ads.example", Comma>>
    /\ device.BlockedDomains = <<<<"ads.example">>, <<>>>>

\* The four lists of addresses: holds.
C35_AddressListsSkipEmpty == AddressListsSkipEmpty

C35_WitnessCheckAlive ==
    /\ InterfaceParsed
    /\ KeyString(Sec, "checkalive") = <<Addr4, Comma, Comma, Space, Addr6, Space>>
    /\ device.CheckAlive = <<AddrOf(Addr4), AddrOf(Addr6)>>

C35_WitnessAllowedIPs ==
    /\ PeersParsed
    /\ KeyString(cfg["peer"][1], "allowedips")
          = <<Comma, Addr4, Slash, "32", Comma>>
    /\ Len(device.Peers[1].AllowedIPs) = 1

\* BlockedDomains holds every element trimmed, the empty ones too.
C35_BlockedDomainsKeepsEmpty ==
    InterfaceParsed =>
        device.BlockedDomains
            = [i \in 1..Len(Split(KeyString(Sec, "blockeddomains"))) |->
                  TrimSpace(Split(KeyString(Sec, "blockeddomains"))[i])]

(***************************************************************************)
(* C36.  The range of CheckAliveInterval.                                  *)
(***************************************************************************)
\* C36: after a parse without error CheckAliveInterval is at least 1; a
\* configured interval of 0 or below is rejected.
C36_IntervalPositive ==
    Ok => IntLeq(IntOf(1), device.CheckAliveInterval)

\* CheckAlive is set and CheckAliveInterval = 0 is accepted as it is.
C36_Witness ==
    /\ Ok /\ OneSection /\ device.CheckAlive # <<>>
    /\ KeyString(Sec, "checkaliveinterval") = <<"0">>
    /\ device.CheckAliveInterval = IntOf(0)

C36_WitnessNegative ==
    /\ Ok /\ OneSection /\ device.CheckAlive # <<>>
    /\ KeyString(Sec, "checkaliveinterval") = <<"-", "1">>
    /\ device.CheckAliveInterval = GoInt(TRUE, NatOf(1))

\* What the parse does ensure: without the key the interval is 5, and with
\* it the interval is the integer written, of any sign, and CheckAlive is
\* not empty.
C36_IntervalAsWritten ==
    (Ok /\ OneSection) =>
        IF HasKey(Sec, "checkaliveinterval")
        THEN /\ device.CheckAlive # <<>>
             /\ IsInteger(Sec["checkaliveinterval"])
             /\ device.CheckAliveInterval = Denoted(Sec["checkaliveinterval"])
        ELSE device.CheckAliveInterval = IntOf(CheckAliveIntervalDefault)

(***************************************************************************)
(* C37.  Which process applies read-config.                                *)
(***************************************************************************)
\* main is about to parse the configuration, or has parsed it.
AtParseConfig == exit = "running" /\ mpc = "ParseConfig"
FlagsParsed == flags # NilPtr

\* C37: a process that is not the daemon child has applied read-config,
\* after boot, when it comes to parse the configuration, a parent started
\* with -d too; the daemon child has applied boot-daemon and never applies
\* read-config.
C37_ReadConfigUnlessChild ==
    /\ (AtParseConfig /\ ~isDaemonProcess) => Before("boot", "read-config")
    /\ (FlagsParsed /\ isDaemonProcess)
          => (Applied("boot-daemon") /\ ~Applied("read-config"))
    /\ ~isDaemonProcess => ~Applied("boot-daemon")

\* C37 as the code has it: read-config is applied, after boot and before
\* the configuration is parsed, exactly by a process whose flags do not hold
\* -d; a parent started with -d parses the configuration without it, and so
\* does the daemon child it starts, whose arguments hold the parent's -d.
\* The process with the sentinel has applied boot-daemon, after boot.
C37_ReadConfigUnlessDaemonFlag ==
    /\ AtParseConfig =>
          /\ Applied("read-config") <=> ~DaemonFlagGiven
          /\ Applied("read-config") => Before("boot", "read-config")
    /\ Applied("read-config") => ~DaemonFlagGiven
    /\ Applied("ParseConfig") => (Applied("read-config") <=> ~DaemonFlagGiven)
    /\ (FlagsParsed /\ isDaemonProcess) => Before("boot", "boot-daemon")
    /\ ~isDaemonProcess => ~Applied("boot-daemon")
    /\ (isDaemonProcess /\ execs # <<>>) => ~Applied("read-config")

\* wireproxy -d -c wg.conf: the parent has parsed the configuration and
\* started its child, and read-config was never applied.
C37_Witness ==
    /\ ~isDaemonProcess /\ DaemonFlagGiven
    /\ Applied("ParseConfig") /\ Applied("exec") /\ exit = "returned"
    /\ Stages = <<"boot">>

\* The child of that parent: boot-daemon and no read-config.
C37_WitnessChild ==
    /\ isDaemonProcess /\ execs # <<>> /\ AtParseConfig
    /\ Stages = <<"boot", "boot-daemon">>

\* Without -d: read-config between boot and ParseConfig.
C37_WitnessNoDaemonFlag ==
    /\ ~isDaemonProcess /\ ~DaemonFlagGiven /\ AtParseConfig
    /\ Stages = <<"boot", "read-config">>

(***************************************************************************)
(* C38.  What StartWireguard hands to main.                                *)
(***************************************************************************)

\* StartWireguard has returned a VirtualTun to main.
TunReturned == Applied("StartWireguard")

\* StartWireguard has failed: main ended in log.Fatal with its error.
BootstrapFailed == exit = "fatal" /\ err \in BootstrapErrors

\* The fields of the VirtualTun the reply tasks and the logging calls use.
TunInitialized ==
    /\ tun # NilPtr
    /\ tun[1].Tnet # NilPtr /\ tun[1].Dev # NilPtr
    /\ tun[1].Conf = PtrTo(device)
    /\ tun[1].Logger # NilPtr
    /\ tun[1].PingRecord = EmptyMap
    /\ tun[1].PingRecordLock # NilPtr

\* Nothing has been started: no routine, no prober, no health server.
NothingStarted ==
    /\ tun = NilPtr
    /\ tasks = <<>>
    /\ prober.pc = "off"
    /\ ~Applied("SpawnRoutine") /\ ~Applied("StartPingIPs")

\* C38: when StartWireguard succeeds the VirtualTun it returns has Tnet,
\* Dev, Conf and Logger set, an empty PingRecord map and an initialized
\* PingRecordLock; when a bootstrap step fails no VirtualTun is returned and
\* no routine, prober or health server is started.
C38_VirtualTunInitialized ==
    /\ TunReturned => TunInitialized
    /\ BootstrapFailed => NothingStarted

\* StartWireguard has returned, and the VirtualTun main holds has a nil
\* Logger and a nil PingRecordLock while the prober it started is running.
C38_Witness ==
    /\ TunReturned
    /\ tun # NilPtr
    /\ tun[1].Logger = NilPtr /\ tun[1].PingRecordLock = NilPtr
    /\ prober.pc # "off"

\* What the code does keep: the fields of the composite literal are set,
\* and a failed bootstrap returns no VirtualTun and starts nothing.
C38_LiteralFieldsAndAbort ==
    /\ TunReturned => tun = PtrTo(VirtualTunOf(device))
    /\ TunReturned => /\ tun[1].Tnet # NilPtr /\ tun[1].Dev # NilPtr
                      /\ tun[1].Conf = PtrTo(device)
                      /\ tun[1].PingRecord = EmptyMap
    /\ BootstrapFailed => NothingStarted /\ err \in BootstrapErrors
    /\ (tasks # <<>> \/ prober.pc # "off") => TunReturned

\* A bootstrap step has failed and main has ended with nothing started.
C38_WitnessAbort == BootstrapFailed /\ NothingStarted /\ err = ErrUp

(***************************************************************************)
(* C39.  ListenAndServe, its accept loop and errCh.                        *)
(***************************************************************************)

\* The tasks that run HTTPServer.ListenAndServe.
HTTPTasks == {i \in 1..Len(tasks) : tasks[i].kind = "http"}

\* ListenAndServe of task i has bound its listener and not yet returned.
ServingHTTP(i) == i \in HTTPTasks /\ tasks[i].pc \in {"select", "drain"}

\* The accept loop of task i has met an error of Accept and has sent on
\* errCh.
AcceptFailed(i) == i \in HTTPTasks /\ tasks[i].accept = "returned"

\* ListenAndServe of task i has returned, or the process has ended and the
\* task with it.
ServeReturned(i) ==
    \/ exit # "running"
    \/ i \in HTTPTasks /\ tasks[i].pc = "returned"

\* A step in which the accept loop of a task sends on errCh finds the
\* channel empty, and the channel never holds more than its one slot.
SendFindsRoom ==
    \A i \in HTTPTasks :
        (i \in 1..Len(tasks') /\ tasks[i].accept = "Accept"
                              /\ tasks'[i].accept = "returned")
            => (tasks[i].errCh = <<>> /\ Len(tasks'[i].errCh) = 1)

\* ListenAndServe that returned after a successful bind has closed its
\* listener, and its accept loop has ended.
ReturnedClean ==
    \A i \in HTTPTasks :
        (tasks[i].pc = "returned" /\ tasks[i].listener # "none")
            => (tasks[i].listener = "closed" /\ tasks[i].accept = "returned")

\* C39: HTTPServer.ListenAndServe returns in every interleaving of an Accept
\* failure with the cancellation of the context: the one send of the accept
\* loop on the one-slot errCh never blocks, the receive from errCh of the
\* ctx.Done branch always completes, and when ListenAndServe returns after a
\* successful bind the listener is closed and the accept loop has ended.
C39_ListenAndServeReturns ==
    /\ [][SendFindsRoom]_vars
    /\ [](\A i \in HTTPTasks : Len(tasks[i].errCh) <= 1)
    /\ []ReturnedClean
    /\ \A i \in TaskIds :
          (ServingHTTP(i) /\ (AcceptFailed(i) \/ Cancelled)) ~> ServeReturned(i)

\* Accept failed on the open listener and the context was cancelled before
\* the select ran; the select took the error, and ListenAndServe returned it
\* with the listener closed and the accept loop ended.
C39_Witness ==
    /\ exit = "running" /\ Cancelled
    /\ \E i \in HTTPTasks :
          /\ tasks[i].pc = "returned"
          /\ tasks[i].ret = PtrTo(ErrAccept)
          /\ tasks[i].listener = "closed"
          /\ tasks[i].accept = "returned"
          /\ tasks[i].errCh = <<>>

\* The other order: the select took ctx.Done while the error of Accept was
\* already in errCh, and the receive finds it there.
C39_WitnessDrainHasError ==
    /\ exit = "running" /\ Cancelled
    /\ \E i \in HTTPTasks :
          tasks[i].pc = "drain" /\ tasks[i].errCh = <<ErrAccept>>

\* The select took ctx.Done with the accept loop still in Accept: the
\* receive waits for the loop to meet the closed listener.
C39_WitnessDrainWaits ==
    /\ exit = "running" /\ Cancelled
    /\ \E i \in HTTPTasks :
          /\ tasks[i].pc = "drain" /\ tasks[i].errCh = <<>>
          /\ tasks[i].accept = "Accept" /\ tasks[i].listener = "closed"

\* ListenAndServe returned ctx.Err() after the receive.
C39_WitnessCanceled ==
    /\ exit = "running"
    /\ \E i \in HTTPTasks :
          /\ tasks[i].pc = "returned" /\ tasks[i].ret = PtrTo(ErrCanceled)
          /\ tasks[i].accept = "returned" /\ tasks[i].errCh = <<>>

\* The receive of the ctx.Done branch is only ever reached with the context
\* cancelled and the listener closed.
C39_DrainAfterClose ==
    \A i \in HTTPTasks :
        tasks[i].pc = "drain" => (Cancelled /\ tasks[i].listener = "closed")

====
